---- MODULE Spec2Model ----
(***************************************************************************)
(* TycoonCraft backend: the idle-income economy (update_player_coins), the *)
(* placement lifecycle and the request handlers of backend/game/views.py.  *)
(*                                                                         *)
(* Amounts are integers: coins and time crystals in whole units, rates in  *)
(* units per second, percentages in percent, time in whole seconds.  The   *)
(* object definitions of the table GameObject are chosen so that every     *)
(* product the handlers compute is a whole number.                         *)
(***************************************************************************)
EXTENDS Integers, Sequences, FiniteSets, TLC

\* ------------------------------------------------------------------------
\* Bounds of the model
\* ------------------------------------------------------------------------
\* Server time advances only while the clock is below this horizon.
MaxClock == 2
\* PlacedObject rows ever created (ids are handed out 1..MaxPlacedId).
MaxPlacedId == 2

\* Lengths of the steps by which server time advances between requests.
TickSteps == {1, 10, 3600}

\* ------------------------------------------------------------------------
\* config.py
\* ------------------------------------------------------------------------
ERAS == << "Hunter-Gatherer", "Agriculture", "Metallurgy", "Steam & Industry",
           "Electric Age", "Computing", "Futurism", "Interstellar", "Arcana",
           "Beyond" >>

EraNames == {ERAS[i] : i \in 1..Len(ERAS)}

ERA_CRYSTAL_COSTS ==
  [e \in EraNames |->
     CASE e = "Hunter-Gatherer" -> 0
       [] e = "Agriculture" -> 10
       [] e = "Metallurgy" -> 50
       [] e = "Steam & Industry" -> 250
       [] e = "Electric Age" -> 1200
       [] e = "Computing" -> 6000
       [] e = "Futurism" -> 30000
       [] e = "Interstellar" -> 150000
       [] e = "Arcana" -> 800000
       [] OTHER -> 4000000]

ERA_CRAFTING_COSTS ==
  [e \in EraNames |->
     CASE e = "Hunter-Gatherer" -> 50 * 2
       [] e = "Agriculture" -> 250 * 3
       [] e = "Metallurgy" -> 1250 * 4
       [] e = "Steam & Industry" -> 6250 * 5
       [] e = "Electric Age" -> 31250 * 6
       [] e = "Computing" -> 156250 * 7
       [] e = "Futurism" -> 781250 * 8
       [] e = "Interstellar" -> 3906250 * 9
       [] e = "Arcana" -> 19531250 * 10
       [] OTHER -> 97656250 * 11]

\* ERAS.index(era_name), 1-based here; 0 stands for ValueError.
get_era_index(era_name) ==
  IF era_name \in EraNames
    THEN CHOOSE i \in 1..Len(ERAS) : ERAS[i] = era_name
    ELSE 0

NoEra == "None"

get_next_era(current_era) ==
  LET current_index == get_era_index(current_era)
  IN IF current_index # 0 /\ current_index < Len(ERAS)
       THEN ERAS[current_index + 1]
       ELSE NoEra

get_higher_era(era_a, era_b) ==
  IF get_era_index(era_a) # 0 /\ get_era_index(era_b) # 0
    THEN (IF get_era_index(era_a) >= get_era_index(era_b) THEN era_a ELSE era_b)
    ELSE era_a

\* ------------------------------------------------------------------------
\* models.py: the rows of GameObject
\* ------------------------------------------------------------------------
NULL == -1

NoModifiers == << >>

FarmBoost == [active_when |-> "operational", affected_categories |-> << "farm" >>,
              income_multiplier |-> 2, stacking |-> "multiplicative"]

\* A modifier that the generation interface may give an object: additive.
FarmTools == [active_when |-> "operational", affected_categories |-> << "farm" >>,
              income_multiplier |-> 3, stacking |-> "additive"]

GameObject ==
  << \* 1: starter of initialize_starter_objects.py
     [object_name |-> "Rock", era_name |-> "Hunter-Gatherer", is_keystone |-> FALSE,
      is_starter |-> TRUE, category |-> "natural", cost |-> 10, time_crystal_cost |-> 0,
      income_per_second |-> 0, time_crystal_generation |-> 0, build_time_sec |-> 0,
      operation_duration_sec |-> 300, retire_payout_coins_pct |-> 20, sellback_pct |-> 20,
      cap_per_civ |-> NULL, footprint_w |-> 1, footprint_h |-> 1,
      global_modifiers |-> NoModifiers],
     \* 2: starter of initialize_starter_objects.py
     [object_name |-> "Stick", era_name |-> "Hunter-Gatherer", is_keystone |-> FALSE,
      is_starter |-> TRUE, category |-> "natural", cost |-> 10, time_crystal_cost |-> 0,
      income_per_second |-> 0, time_crystal_generation |-> 0, build_time_sec |-> 0,
      operation_duration_sec |-> 300, retire_payout_coins_pct |-> 20, sellback_pct |-> 20,
      cap_per_civ |-> NULL, footprint_w |-> 1, footprint_h |-> 1,
      global_modifiers |-> NoModifiers],
     \* 3: a farm that carries a x2 multiplicative modifier on farms
     [object_name |-> "Berry Farm", era_name |-> "Hunter-Gatherer", is_keystone |-> FALSE,
      is_starter |-> FALSE, category |-> "farm", cost |-> 20, time_crystal_cost |-> 0,
      income_per_second |-> 1, time_crystal_generation |-> 0, build_time_sec |-> 0,
      operation_duration_sec |-> 2, retire_payout_coins_pct |-> 50, sellback_pct |-> 50,
      cap_per_civ |-> NULL, footprint_w |-> 1, footprint_h |-> 1,
      global_modifiers |-> << FarmBoost >>],
     \* 4: a farm without modifiers that takes a second to build
     [object_name |-> "Field", era_name |-> "Hunter-Gatherer", is_keystone |-> FALSE,
      is_starter |-> FALSE, category |-> "farm", cost |-> 20, time_crystal_cost |-> 0,
      income_per_second |-> 1, time_crystal_generation |-> 1, build_time_sec |-> 1,
      operation_duration_sec |-> 2, retire_payout_coins_pct |-> 50, sellback_pct |-> 50,
      cap_per_civ |-> NULL, footprint_w |-> 1, footprint_h |-> 1,
      global_modifiers |-> NoModifiers],
     \* 5: keystone of the first era, takes two seconds to build
     [object_name |-> "Campfire", era_name |-> "Hunter-Gatherer", is_keystone |-> TRUE,
      is_starter |-> FALSE, category |-> "keystone", cost |-> 100, time_crystal_cost |-> 0,
      income_per_second |-> 0, time_crystal_generation |-> 0, build_time_sec |-> 2,
      operation_duration_sec |-> 1, retire_payout_coins_pct |-> 10, sellback_pct |-> 10,
      cap_per_civ |-> 1, footprint_w |-> 2, footprint_h |-> 2,
      global_modifiers |-> NoModifiers],
     \* 6: a keystone of the first era that needs no building time; income 2
     [object_name |-> "Totem", era_name |-> "Hunter-Gatherer", is_keystone |-> TRUE,
      is_starter |-> FALSE, category |-> "keystone", cost |-> 100, time_crystal_cost |-> 0,
      income_per_second |-> 2, time_crystal_generation |-> 1, build_time_sec |-> 0,
      operation_duration_sec |-> 300, retire_payout_coins_pct |-> 10, sellback_pct |-> 10,
      cap_per_civ |-> 1, footprint_w |-> 1, footprint_h |-> 1,
      global_modifiers |-> NoModifiers],
     \* 7: starter of the second era
     [object_name |-> "Seed", era_name |-> "Agriculture", is_keystone |-> FALSE,
      is_starter |-> TRUE, category |-> "natural", cost |-> 10, time_crystal_cost |-> 0,
      income_per_second |-> 0, time_crystal_generation |-> 0, build_time_sec |-> 0,
      operation_duration_sec |-> 300, retire_payout_coins_pct |-> 20, sellback_pct |-> 20,
      cap_per_civ |-> NULL, footprint_w |-> 1, footprint_h |-> 1,
      global_modifiers |-> NoModifiers],
     \* 8: a building with a 2 x 2 footprint and no cap
     [object_name |-> "Hut", era_name |-> "Hunter-Gatherer", is_keystone |-> FALSE,
      is_starter |-> FALSE, category |-> "housing", cost |-> 10, time_crystal_cost |-> 0,
      income_per_second |-> 0, time_crystal_generation |-> 0, build_time_sec |-> 0,
      operation_duration_sec |-> 300, retire_payout_coins_pct |-> 20, sellback_pct |-> 20,
      cap_per_civ |-> NULL, footprint_w |-> 2, footprint_h |-> 2,
      global_modifiers |-> NoModifiers],
     \* 9: an object whose cap_per_civ is 0
     [object_name |-> "Relic", era_name |-> "Hunter-Gatherer", is_keystone |-> FALSE,
      is_starter |-> FALSE, category |-> "wonder", cost |-> 10, time_crystal_cost |-> 0,
      income_per_second |-> 0, time_crystal_generation |-> 0, build_time_sec |-> 0,
      operation_duration_sec |-> 300, retire_payout_coins_pct |-> 20, sellback_pct |-> 20,
      cap_per_civ |-> 0, footprint_w |-> 1, footprint_h |-> 1,
      global_modifiers |-> NoModifiers],
     \* 10: an object that costs a time crystal
     [object_name |-> "Shrine", era_name |-> "Hunter-Gatherer", is_keystone |-> FALSE,
      is_starter |-> FALSE, category |-> "wonder", cost |-> 10, time_crystal_cost |-> 1,
      income_per_second |-> 0, time_crystal_generation |-> 0, build_time_sec |-> 1,
      operation_duration_sec |-> 300, retire_payout_coins_pct |-> 20, sellback_pct |-> 20,
      cap_per_civ |-> 1, footprint_w |-> 1, footprint_h |-> 1,
      global_modifiers |-> NoModifiers],
     \* 11: what the generation interface may answer for any pair: an object
     \* it names "Campfire" that is not a keystone
     [object_name |-> "Campfire", era_name |-> "Hunter-Gatherer", is_keystone |-> FALSE,
      is_starter |-> FALSE, category |-> "keystone", cost |-> 100, time_crystal_cost |-> 0,
      income_per_second |-> 0, time_crystal_generation |-> 0, build_time_sec |-> 2,
      operation_duration_sec |-> 1, retire_payout_coins_pct |-> 10, sellback_pct |-> 10,
      cap_per_civ |-> 1, footprint_w |-> 2, footprint_h |-> 2,
      global_modifiers |-> NoModifiers],
     \* 12: what the generation interface may answer for any pair: an object
     \* of the second era that is not a keystone; it adds to the income of
     \* farms
     [object_name |-> "Plough", era_name |-> "Agriculture", is_keystone |-> FALSE,
      is_starter |-> FALSE, category |-> "tool", cost |-> 10, time_crystal_cost |-> 0,
      income_per_second |-> 0, time_crystal_generation |-> 0, build_time_sec |-> 0,
      operation_duration_sec |-> 300, retire_payout_coins_pct |-> 20, sellback_pct |-> 20,
      cap_per_civ |-> NULL, footprint_w |-> 1, footprint_h |-> 1,
      global_modifiers |-> << FarmTools >>],
     \* 13: what the generation interface may answer for any pair: an object
     \* of an era that config.ERAS does not list
     [object_name |-> "Driftwood", era_name |-> "Stone Age", is_keystone |-> FALSE,
      is_starter |-> FALSE, category |-> "natural", cost |-> 10, time_crystal_cost |-> 0,
      income_per_second |-> 0, time_crystal_generation |-> 0, build_time_sec |-> 0,
      operation_duration_sec |-> 300, retire_payout_coins_pct |-> 20, sellback_pct |-> 20,
      cap_per_civ |-> NULL, footprint_w |-> 1, footprint_h |-> 1,
      global_modifiers |-> NoModifiers] >>

ObjIds == 1..Len(GameObject)

\* GameObject.object_name is unique: the rows of a deployment in which the
\* keystone Campfire exists and the answers 11 to 13 were never given.
DeployedObjects == {o \in ObjIds : o < 11}

\* The rows seeded before the first request (starter objects of every era).
SeededObjects == {o \in ObjIds : GameObject[o].is_starter}

\* cost * pct, pct in percent
PctOf(cost, pct) == (cost * pct) \div 100

\* ------------------------------------------------------------------------
\* State
\* ------------------------------------------------------------------------
Players == {1, 2}

VARIABLES
  clock,            \* timezone.now() of the server
  profiles,         \* players that have a PlayerProfile (registered users)
  coins,            \* PlayerProfile.coins
  time_crystals,    \* PlayerProfile.time_crystals
  current_era,      \* PlayerProfile.current_era
  last_coin_update, \* PlayerProfile.last_coin_update
  discoveries,      \* Discovery rows: player -> set of GameObject ids
  era_unlocks,      \* EraUnlock rows: player -> set of era names
  placed,           \* PlacedObject rows
  next_placed_id,   \* next primary key of PlacedObject
  game_objects,     \* ids of the GameObject rows that exist
  recipes,          \* CraftingRecipe rows
  rate_limits,      \* RateLimit rows
  is_pro,           \* PlayerProfile.is_pro
  paid,             \* history: retirement payouts made, per PlacedObject id
  in_flight,        \* requests whose handler has read the profile and not ended
  eras_dir,         \* the era definition files of BASE_DIR/eras, by file name
  era_loader,       \* EraLoader._instance, its tables and _era_loader_instance
  era_result,       \* outcome of the last call of get_era_loader or validate_eras
  exported,         \* the response of the last export_game, as a client holds it
  upgrade_keys      \* UpgradeKey rows, by key

vars == << clock, profiles, coins, time_crystals, current_era, last_coin_update,
           discoveries, era_unlocks, placed, next_placed_id, game_objects,
           recipes, rate_limits, is_pro, paid, in_flight,
           eras_dir, era_loader, era_result, exported, upgrade_keys >>

\* ------------------------------------------------------------------------
\* Helpers
\* ------------------------------------------------------------------------
\* The requests the server handles at the same time (its workers).
Slots == {1, 2}

\* A worker that handles no request.
NoRequest ==
  [player |-> 0, kind |-> "none", object_id |-> 0, x |-> 0, y |-> 0, done |-> FALSE,
   profile |-> [coins |-> 0, time_crystals |-> 0, current_era |-> "",
                last_coin_update |-> 0]]

\* The place of the database snapshot when no request is being handled.
NoStore ==
  [coins |-> 0, time_crystals |-> 0, current_era |-> "", last_coin_update |-> 0,
   era_unlocks |-> {}, discoveries |-> {}, placed |-> {}, next_placed_id |-> 0,
   retired |-> {}]

\* No request is being handled.
Quiet == [slot |-> [s \in Slots |-> NoRequest], base |-> NoStore]

\* RateLimit rows are unique per (player, limit_type); player 0 is the
\* global row (player=None).
GlobalScope == 0

RateLimitKeys ==
  (Players \X {"daily_discoveries", "user_discovery"})
    \cup { << GlobalScope, "global_daily_discoveries" >>, << GlobalScope, "global_api" >> }

NoRow == [count |-> -1, window_start |-> -1]

\* All enumeration orders of a finite set (a query without ORDER BY).
Orders(S) ==
  {f \in [1..Cardinality(S) -> S] : \A i, j \in 1..Cardinality(S) : f[i] = f[j] => i = j}

RECURSIVE SumOver(_, _)
\* sum of f[x] over the finite set S
SumOver(S, f) ==
  IF S = {} THEN 0
  ELSE LET x == CHOOSE y \in S : TRUE IN f[x] + SumOver(S \ {x}, f)

PlacedOf(rows, p) == {i \in rows : i.player = p}

\* ------------------------------------------------------------------------
\* views.py: update_player_coins
\* ------------------------------------------------------------------------
\* Phase 1 query: buildings of the player whose build time has passed.
completed_buildings(rows, p, now) ==
  {i \in rows : i.player = p /\ i.is_building /\ i.build_complete_at <= now}

\* Starter rows of an era (GameObject.objects.filter(is_starter, era_name)).
starter_objects(era_name) ==
  {o \in game_objects : GameObject[o].is_starter /\ GameObject[o].era_name = era_name}

\* A loop that moves current_era on and creates no EraUnlock row.
keystone_pass_without_unlock(korder, st) ==
  IF korder = << >> THEN st
  ELSE LET go == GameObject[Head(korder).game_object]
       IN IF go.is_keystone /\ get_next_era(go.era_name) # NoEra
            THEN [st EXCEPT !.current_era = get_next_era(go.era_name)]
            ELSE st

\* The loop over completed_buildings: every keystone unlocks the era after
\* its own, if that era is not unlocked yet.  st holds the player's
\* EraUnlock rows, current_era and Discovery rows.
RECURSIVE keystone_pass(_, _)
keystone_pass(korder, st) ==
  IF korder = << >> THEN st
  ELSE LET go == GameObject[Head(korder).game_object]
           era_to_unlock == get_next_era(go.era_name)
           next_st ==
             IF go.is_keystone /\ era_to_unlock # NoEra
                  /\ era_to_unlock \notin st.era_unlocks
               THEN [era_unlocks |-> st.era_unlocks \cup {era_to_unlock},
                     current_era |-> era_to_unlock,
                     discoveries |-> st.discoveries \cup starter_objects(era_to_unlock)]
               ELSE st
       IN keystone_pass(Tail(korder), next_st)

\* A build-completion update that leaves the building flag set.
complete_builds_keeps_building(rows, p, now) ==
  {IF i \in completed_buildings(rows, p, now)
     THEN [i EXCEPT !.is_operational = TRUE]
     ELSE i : i \in rows}

\* completed_buildings.update(is_building=False, is_operational=True)
complete_builds(rows, p, now) ==
  {IF i \in completed_buildings(rows, p, now)
     THEN [i EXCEPT !.is_building = FALSE, !.is_operational = TRUE]
     ELSE i : i \in rows}

\* Phase 2 query: operational rows whose retire_at has passed.
retiring_objects(rows, p, now) ==
  {i \in rows : i.player = p /\ i.is_operational
                 /\ i.retire_at # NULL /\ i.retire_at <= now}

retirement_payout(i) ==
  PctOf(GameObject[i.game_object].cost, GameObject[i.game_object].retire_payout_coins_pct)

\* A retirement update that pays out and leaves the row operational.
retire_objects_keeps_operational(rows, p, now) == rows

retire_objects(rows, p, now) ==
  {IF i \in retiring_objects(rows, p, now)
     THEN [i EXCEPT !.is_operational = FALSE]
     ELSE i : i \in rows}

\* Phase 3 query: rows that earn in this pass.
operational_objects(rows, p, now) ==
  {i \in rows : i.player = p /\ i.is_operational
                 /\ (i.retire_at = NULL \/ i.retire_at > now)}

\* The entries one modifier appends to modifier_map[category].
RECURSIVE modifier_hits(_, _, _)
modifier_hits(mod, cats, category) ==
  IF cats = << >> THEN << >>
  ELSE (IF Head(cats) = category
          THEN << << mod.income_multiplier, mod.stacking >> >>
          ELSE << >>) \o modifier_hits(mod, Tail(cats), category)

RECURSIVE object_hits(_, _)
object_hits(mods, category) ==
  IF mods = << >> THEN << >>
  ELSE (IF Head(mods).active_when = "operational"
          THEN modifier_hits(Head(mods), Head(mods).affected_categories, category)
          ELSE << >>) \o object_hits(Tail(mods), category)

\* modifier_map[category] after the first loop over operational_objects.
RECURSIVE modifier_map(_, _)
modifier_map(aorder, category) ==
  IF aorder = << >> THEN << >>
  ELSE object_hits(GameObject[Head(aorder).game_object].global_modifiers, category)
         \o modifier_map(Tail(aorder), category)

\* A fold that leaves the multiplier at its start value.
income_multiplier_unmodified(entries, acc) == acc

\* The fold of one category's entries, starting from acc.
RECURSIVE income_multiplier(_, _)
income_multiplier(entries, acc) ==
  IF entries = << >> THEN acc
  ELSE income_multiplier(Tail(entries),
         IF Head(entries)[2] = "multiplicative"
           THEN acc * Head(entries)[1]
           ELSE acc + (Head(entries)[1] - 1))

\* total_income of the second loop; all is the full list, rest what is left.
RECURSIVE total_income(_, _)
total_income(all, rest) ==
  IF rest = << >> THEN 0
  ELSE LET go == GameObject[Head(rest).game_object]
       IN go.income_per_second * income_multiplier(modifier_map(all, go.category), 1)
            + total_income(all, Tail(rest))

\* An accrual that generates no time crystals.
total_crystals_none(rest) == 0

RECURSIVE total_crystals(_)
total_crystals(rest) ==
  IF rest = << >> THEN 0
  ELSE GameObject[Head(rest).game_object].time_crystal_generation
         + total_crystals(Tail(rest))

\* The PlayerProfile row of p, as request.user.profile reads it.
profile_of(p) ==
  [coins |-> coins[p], time_crystals |-> time_crystals[p],
   current_era |-> current_era[p], last_coin_update |-> last_coin_update[p]]

\* The whole function at time now, for the object player (a PlayerProfile
\* of p held in memory) and a store with PlacedObject rows `rows` and, for
\* p, EraUnlock rows `unlocked` and Discovery rows `known`.  korder and
\* aorder are the orders in which the store returns completed_buildings
\* and operational_objects.  The value is the persisted state of the
\* player after the call together with the function's return value.
update_player_coins_in(rows, unlocked, known, player, p, now, korder, aorder) ==
  LET st == keystone_pass(korder, [era_unlocks |-> unlocked,
                                   current_era |-> player.current_era,
                                   discoveries |-> known])
      rows1 == complete_builds(rows, p, now)
      retiring == retiring_objects(rows1, p, now)
      payouts == SumOver({i.id : i \in retiring},
                         [k \in {i.id : i \in retiring} |->
                            retirement_payout(CHOOSE i \in retiring : i.id = k)])
      rows2 == retire_objects(rows1, p, now)
      time_elapsed == now - player.last_coin_update
      coins_earned == total_income(aorder, aorder) * time_elapsed
      crystals_earned == total_crystals(aorder) * time_elapsed
  IN [placed |-> rows2,
      era_unlocks |-> st.era_unlocks,
      current_era |-> st.current_era,
      discoveries |-> st.discoveries,
      coins |-> player.coins + payouts + coins_earned,
      time_crystals |-> player.time_crystals + crystals_earned,
      last_coin_update |-> now,
      coins_earned |-> coins_earned,
      crystals_earned |-> crystals_earned,
      retired |-> {i.id : i \in retiring}]

\* Every outcome the function can have on that store.
ReconciledIn(rows, unlocked, known, player, p, now) ==
  {update_player_coins_in(rows, unlocked, known, player, p, now, korder, aorder) :
     korder \in Orders(completed_buildings(rows, p, now)),
     aorder \in Orders(operational_objects(
                  retire_objects(complete_builds(rows, p, now), p, now), p, now))}

\* The function for player p at time now on the current store, called
\* with a profile that was just read.
update_player_coins(p, now, korder, aorder) ==
  update_player_coins_in(placed, era_unlocks[p], discoveries[p], profile_of(p),
                         p, now, korder, aorder)

\* Every outcome update_player_coins(p) can have at the current time.
Reconciled(p) ==
  ReconciledIn(placed, era_unlocks[p], discoveries[p], profile_of(p), p, clock)

\* paid after the retirements of outcome r
PaidAfter(r) == [k \in DOMAIN paid |-> IF k \in r.retired THEN paid[k] + 1 ELSE paid[k]]

\* ------------------------------------------------------------------------
\* era_loader.py: the era definition files and EraLoader
\* ------------------------------------------------------------------------
\* required_fields of _load_eras
RequiredFields ==
  {"order", "name", "crystal_unlock_cost", "crafting_cost", "canvas_size",
   "stat_ranges", "prompt_description", "keystone", "starters"}

\* An era definition file: its order and name and the top-level keys it has.
EraFile(order, name, present) == [order |-> order, name |-> name, present |-> present]

\* The era files of the deployment, one per era of ERAS, by file name.
DeployedEras == [i \in 1..Len(ERAS) |-> EraFile(i, ERAS[i], RequiredFields)]

\* EraLoader._instance and _era_loader_instance are None; the class
\* attributes _eras, _eras_by_name and _eras_by_order are None.
NotLoaded ==
  [instance |-> FALSE, global |-> FALSE, loaded |-> FALSE, eras |-> << >>,
   eras_by_name |-> << >>, eras_by_order |-> << >>]

\* No call has been made.
NoCall ==
  [call |-> "none", raised |-> "", failed |-> FALSE, complete |-> FALSE,
   flagged |-> {}, table |-> << >>]

\* The index of the first file that lacks a required field, 0 if none.
first_missing(files) ==
  LET bad == {i \in 1..Len(files) : ~(RequiredFields \subseteq files[i].present)}
  IN IF bad = {} THEN 0 ELSE CHOOSE i \in bad : \A j \in bad : i <= j

\* list.sort(key=lambda x: x['order']): stable, ascending.
sort_by_order(files) ==
  LET n == Len(files)
      rank(i) == 1 + Cardinality({j \in 1..n :
                       \/ files[j].order < files[i].order
                       \/ files[j].order = files[i].order /\ j < i})
  IN [k \in 1..n |-> files[CHOOSE i \in 1..n : rank(i) = k]]

\* A dict filled in the order of the files: a later file replaces an
\* earlier one that has the same key.
dict_by(files, key) ==
  LET n == Len(files)
      keys == {key[i] : i \in 1..n}
      last(k) == CHOOSE i \in 1..n : key[i] = k /\ \A j \in 1..n : key[j] = k => j <= i
  IN [k \in keys |-> files[last(k)]]

\* EraLoader._load_eras on the files of the directory: the exception it
\* raises ("" if none) and the attributes it leaves on the instance.
load_eras(files) ==
  LET bad == first_missing(files)
      read == IF bad = 0 THEN files ELSE SubSeq(files, 1, bad - 1)
  IN IF Len(files) = 0
       THEN [raised |-> "FileNotFoundError", loaded |-> FALSE, eras |-> << >>,
             eras_by_name |-> << >>, eras_by_order |-> << >>]
       ELSE [raised |-> IF bad = 0 THEN "" ELSE "ValueError",
             loaded |-> TRUE,
             eras |-> IF bad = 0 THEN sort_by_order(read) ELSE read,
             eras_by_name |-> dict_by(read, [i \in 1..Len(read) |-> read[i].name]),
             eras_by_order |-> dict_by(read, [i \in 1..Len(read) |-> read[i].order])]

\* get_era_loader() with EraLoader.__new__: the loader after the call and
\* the exception the call raises. __new__ stores the instance before it
\* loads, so that an instance whose load raised is returned as it is by
\* the next call.
era_loader_after(loader, files) ==
  IF loader.global THEN [loader |-> loader, raised |-> ""]
  ELSE IF loader.instance THEN [loader |-> [loader EXCEPT !.global = TRUE], raised |-> ""]
  ELSE LET l == load_eras(files)
       IN [loader |-> [instance |-> TRUE, global |-> l.raised = "", loaded |-> l.loaded,
                       eras |-> l.eras, eras_by_name |-> l.eras_by_name,
                       eras_by_order |-> l.eras_by_order],
           raised |-> l.raised]

\* Command.handle of validate_eras.py: what it writes. Every exception is
\* caught and reported as "Validation failed"; the orders that differ
\* from the position are written as error lines and the command still
\* ends with "Validation complete".
validate_eras_report(loader, raised) ==
  IF raised # "" \/ ~loader.loaded
    THEN [call |-> "validate_eras", raised |-> "", failed |-> TRUE, complete |-> FALSE,
          flagged |-> {}, table |-> << >>]
    ELSE [call |-> "validate_eras", raised |-> "", failed |-> FALSE, complete |-> TRUE,
          flagged |-> {i \in 1..Len(loader.eras) : loader.eras[i].order # i},
          table |-> loader.eras]

\* ------------------------------------------------------------------------
\* Initial states
\* ------------------------------------------------------------------------
STARTING_COINS == 500

\* The keys of the UpgradeKey rows the operator has created in the admin
\* site, as sequences of characters.
UpgradeKeyNames == { << "K", "1" >>, << "K", "2" >> }

\* redeemed_by is NULL
NoUser == 0

\* A row as the admin site creates it.
NewKey == [is_redeemed |-> FALSE, redeemed_by |-> NoUser, redeemed_at |-> NULL]

DeployedKeys == [k \in UpgradeKeyNames |-> NewKey]

\* The database after the migrations and the seeding of the starter
\* objects; no user has registered.
InitSeeded ==
  /\ clock = 0
  /\ profiles = {}
  /\ coins = [p \in Players |-> 0]
  /\ time_crystals = [p \in Players |-> 0]
  /\ current_era = [p \in Players |-> "Hunter-Gatherer"]
  /\ last_coin_update = [p \in Players |-> 0]
  /\ discoveries = [p \in Players |-> {}]
  /\ era_unlocks = [p \in Players |-> {}]
  /\ placed = {}
  /\ next_placed_id = 1
  /\ game_objects = SeededObjects
  /\ recipes = {}
  /\ rate_limits = [k \in RateLimitKeys |-> NoRow]
  /\ is_pro = [p \in Players |-> FALSE]
  /\ paid = [k \in 1..(MaxPlacedId + 1) |-> 0]
  /\ in_flight = Quiet
  /\ eras_dir = DeployedEras
  /\ era_loader = NotLoaded
  /\ era_result = NoCall
  /\ exported = << >>
  /\ upgrade_keys = DeployedKeys

\* The recipes of a database in which every object of GameObject exists.
DeployedRecipes ==
  { [object_a |-> 1, object_b |-> 1, result |-> 3],
    [object_a |-> 2, object_b |-> 2, result |-> 4],
    [object_a |-> 1, object_b |-> 2, result |-> 5],
    [object_a |-> 1, object_b |-> 3, result |-> 6] }

\* The account of create_admin_account.py.
Admin == 2

\* A running deployment: the admin account generated the objects of
\* GameObject at time 0 (one generation and one image call each) and
\* create_admin_account.py was run again afterwards, which resets the
\* profile and grants every discovery and every era.
InitDeployed ==
  /\ clock = 0
  /\ profiles = {Admin}
  /\ coins = [p \in Players |-> IF p = Admin THEN STARTING_COINS ELSE 0]
  /\ time_crystals = [p \in Players |-> 0]
  /\ current_era = [p \in Players |-> IF p = Admin THEN "Beyond" ELSE "Hunter-Gatherer"]
  /\ last_coin_update = [p \in Players |-> 0]
  /\ discoveries = [p \in Players |-> IF p = Admin THEN DeployedObjects ELSE {}]
  /\ era_unlocks = [p \in Players |-> IF p = Admin THEN EraNames ELSE {}]
  /\ placed = {}
  /\ next_placed_id = 1
  /\ game_objects = DeployedObjects
  /\ recipes = DeployedRecipes
  /\ rate_limits =
       [k \in RateLimitKeys |->
          CASE k = << Admin, "daily_discoveries" >> ->
                 [count |-> Cardinality(DeployedRecipes), window_start |-> 0]
            [] k = << Admin, "user_discovery" >> ->
                 [count |-> Cardinality(DeployedRecipes), window_start |-> 0]
            [] k = << GlobalScope, "global_daily_discoveries" >> ->
                 [count |-> Cardinality(DeployedRecipes), window_start |-> 0]
            [] k = << GlobalScope, "global_api" >> ->
                 [count |-> 2 * Cardinality(DeployedRecipes), window_start |-> 0]
            [] OTHER -> NoRow]
  /\ is_pro = [p \in Players |-> p = Admin]
  /\ paid = [k \in 1..(MaxPlacedId + 1) |-> 0]
  /\ in_flight = Quiet
  /\ eras_dir = DeployedEras
  /\ era_loader = NotLoaded
  /\ era_result = NoCall
  /\ exported = << >>
  /\ upgrade_keys = DeployedKeys

\* ------------------------------------------------------------------------
\* The clock
\* ------------------------------------------------------------------------
Tick(d) ==
  /\ clock < MaxClock
  /\ clock' = clock + d
  /\ UNCHANGED << profiles, coins, time_crystals, current_era, last_coin_update,
                  discoveries, era_unlocks, placed, next_placed_id, game_objects,
                  recipes, rate_limits, is_pro, paid, in_flight,
                  eras_dir, era_loader, era_result, exported, upgrade_keys >>

\* timezone.now() is the wall clock of the host: an adjustment of the
\* host's time sets it back.
StepBack(d) ==
  /\ clock >= d /\ clock <= MaxClock
  /\ clock' = clock - d
  /\ UNCHANGED << profiles, coins, time_crystals, current_era, last_coin_update,
                  discoveries, era_unlocks, placed, next_placed_id, game_objects,
                  recipes, rate_limits, is_pro, paid, in_flight,
                  eras_dir, era_loader, era_result, exported, upgrade_keys >>

\* ------------------------------------------------------------------------
\* views.py: register
\* ------------------------------------------------------------------------
register(p) ==
  /\ p \notin profiles
  /\ profiles' = profiles \cup {p}
  /\ coins' = [coins EXCEPT ![p] = STARTING_COINS]
  /\ time_crystals' = [time_crystals EXCEPT ![p] = 0]
  /\ current_era' = [current_era EXCEPT ![p] = "Hunter-Gatherer"]
  /\ last_coin_update' = [last_coin_update EXCEPT ![p] = clock]
  /\ era_unlocks' = [era_unlocks EXCEPT ![p] = {"Hunter-Gatherer"}]
  /\ discoveries' = [discoveries EXCEPT ![p] = starter_objects("Hunter-Gatherer")]
  /\ is_pro' = [is_pro EXCEPT ![p] = FALSE]
  /\ UNCHANGED << clock, placed, next_placed_id, game_objects, recipes, rate_limits, paid,
                  in_flight,
                  eras_dir, era_loader, era_result, exported, upgrade_keys >>

\* ------------------------------------------------------------------------
\* views.py: game_state (export_game reconciles and reads in the same way)
\* ------------------------------------------------------------------------
\* The writes of update_player_coins, as left behind by outcome r.
Persist(p, r) ==
  /\ era_unlocks' = [era_unlocks EXCEPT ![p] = r.era_unlocks]
  /\ current_era' = [current_era EXCEPT ![p] = r.current_era]
  /\ last_coin_update' = [last_coin_update EXCEPT ![p] = r.last_coin_update]
  /\ paid' = PaidAfter(r)

game_state(p) ==
  /\ p \in profiles
  /\ \E r \in Reconciled(p) :
       /\ Persist(p, r)
       /\ coins' = [coins EXCEPT ![p] = r.coins]
       /\ time_crystals' = [time_crystals EXCEPT ![p] = r.time_crystals]
       /\ discoveries' = [discoveries EXCEPT ![p] = r.discoveries]
       /\ placed' = r.placed
  /\ UNCHANGED << clock, profiles, next_placed_id, game_objects,
                  recipes, rate_limits, is_pro, in_flight,
                  eras_dir, era_loader, era_result, exported, upgrade_keys >>

\* ------------------------------------------------------------------------
\* services/rate_limit.py: is_admin_user
\* ------------------------------------------------------------------------
\* The users named "admin" with is_superuser set (create_admin_account.py).
AdminUsers == {Admin}

is_admin_user(p) == p \in AdminUsers

\* ------------------------------------------------------------------------
\* views.py: place_object
\* ------------------------------------------------------------------------
\* An overlap test that also rejects rectangles that only touch.
overlaps_or_touches(x, y, go, other) ==
  /\ x <= other.x + GameObject[other.game_object].footprint_w
  /\ x + go.footprint_w >= other.x
  /\ y <= other.y + GameObject[other.game_object].footprint_h
  /\ y + go.footprint_h >= other.y

\* The overlap test of the loop over the player's PlacedObject rows.
overlaps(x, y, go, other) ==
  /\ x < other.x + GameObject[other.game_object].footprint_w
  /\ x + go.footprint_w > other.x
  /\ y < other.y + GameObject[other.game_object].footprint_h
  /\ y + go.footprint_h > other.y

\* The first check of place_object that fails, "ok" if none does; r is the
\* outcome of update_player_coins at the start of the request.
\* A validation that leaves out the bounds of the canvas.
place_status_unbounded(p, r, object_id, x, y) ==
  IF object_id \notin game_objects THEN "NotFound"
  ELSE LET go == GameObject[object_id]
           mine == PlacedOf(r.placed, p)
       IN CASE object_id \notin r.discoveries -> "Forbidden"
            [] r.coins < go.cost /\ ~is_admin_user(p) -> "InsufficientFunds"
            [] r.time_crystals < go.time_crystal_cost -> "InsufficientFunds"
            [] go.cap_per_civ # NULL /\ go.cap_per_civ # 0
                 /\ Cardinality({i \in mine : i.game_object = object_id}) >= go.cap_per_civ
                 -> "CapReached"
            [] \E other \in mine : overlaps(x, y, go, other) -> "SpaceOccupied"
            [] OTHER -> "ok"

place_status(p, r, object_id, x, y) ==
  IF object_id \notin game_objects THEN "NotFound"
  ELSE LET go == GameObject[object_id]
           mine == PlacedOf(r.placed, p)
       IN CASE object_id \notin r.discoveries -> "Forbidden"
            [] r.coins < go.cost /\ ~is_admin_user(p) -> "InsufficientFunds"
            [] r.time_crystals < go.time_crystal_cost -> "InsufficientFunds"
            [] go.cap_per_civ # NULL /\ go.cap_per_civ # 0
                 /\ Cardinality({i \in mine : i.game_object = object_id}) >= go.cap_per_civ
                 -> "CapReached"
            [] \E other \in mine : overlaps(x, y, go, other) -> "SpaceOccupied"
            [] x < 0 \/ y < 0 \/ x + go.footprint_w > 1000 \/ y + go.footprint_h > 1000
                 -> "OutOfBounds"
            [] OTHER -> "ok"

\* A row that is operational from the moment it is placed.
new_placed_operational(p, object_id, x, y, now) ==
  LET go == GameObject[object_id]
  IN [id |-> next_placed_id, player |-> p, game_object |-> object_id, x |-> x, y |-> y,
      placed_at |-> now, build_complete_at |-> now + go.build_time_sec,
      retire_at |-> now + go.build_time_sec + go.operation_duration_sec,
      is_building |-> FALSE, is_operational |-> TRUE]

\* PlacedObject.objects.create(...) of place_object
new_placed(p, object_id, x, y, now) ==
  LET go == GameObject[object_id]
      build_complete == now + go.build_time_sec
  IN [id |-> next_placed_id, player |-> p, game_object |-> object_id, x |-> x, y |-> y,
      placed_at |-> now, build_complete_at |-> build_complete,
      retire_at |-> build_complete + go.operation_duration_sec,
      is_building |-> go.build_time_sec > 0,
      is_operational |-> go.build_time_sec = 0]

place_object(p, object_id, x, y) ==
  /\ p \in profiles
  /\ \E r \in Reconciled(p) :
       LET status == place_status(p, r, object_id, x, y)
       IN /\ Persist(p, r)
          /\ discoveries' = [discoveries EXCEPT ![p] = r.discoveries]
          /\ IF status = "ok"
               THEN /\ next_placed_id <= MaxPlacedId
                    /\ coins' = [coins EXCEPT ![p] = r.coins - GameObject[object_id].cost]
                    /\ time_crystals' = [time_crystals EXCEPT ![p] =
                          r.time_crystals - GameObject[object_id].time_crystal_cost]
                    /\ placed' = r.placed \cup {new_placed(p, object_id, x, y, clock)}
                    /\ next_placed_id' = next_placed_id + 1
               ELSE /\ coins' = [coins EXCEPT ![p] = r.coins]
                    /\ time_crystals' = [time_crystals EXCEPT ![p] = r.time_crystals]
                    /\ placed' = r.placed
                    /\ UNCHANGED next_placed_id
  /\ UNCHANGED << clock, profiles, game_objects, recipes, rate_limits, is_pro, in_flight,
                  eras_dir, era_loader, era_result, exported, upgrade_keys >>

\* ------------------------------------------------------------------------
\* views.py: remove_object
\* ------------------------------------------------------------------------
\* A removal that refunds nothing.
refund_nothing(cost, pct) == 0

\* refund = placed.game_object.cost * placed.game_object.sellback_pct
sellback_refund(cost, pct) == PctOf(cost, pct)

remove_object(p, placed_id) ==
  /\ p \in profiles
  /\ \E r \in Reconciled(p) :
       LET found == {i \in PlacedOf(r.placed, p) : i.id = placed_id}
       IN /\ Persist(p, r)
          /\ discoveries' = [discoveries EXCEPT ![p] = r.discoveries]
          /\ time_crystals' = [time_crystals EXCEPT ![p] = r.time_crystals]
          /\ IF found = {}
               THEN /\ coins' = [coins EXCEPT ![p] = r.coins]
                    /\ placed' = r.placed
               ELSE LET row == CHOOSE i \in found : TRUE
                        refund == sellback_refund(GameObject[row.game_object].cost,
                                                  GameObject[row.game_object].sellback_pct)
                    IN /\ coins' = [coins EXCEPT ![p] = r.coins + refund]
                       /\ placed' = r.placed \ {row}
  /\ UNCHANGED << clock, profiles, next_placed_id, game_objects,
                  recipes, rate_limits, is_pro, in_flight,
                  eras_dir, era_loader, era_result, exported, upgrade_keys >>

\* ------------------------------------------------------------------------
\* views.py: redeem_upgrade_key
\* ------------------------------------------------------------------------
\* str.strip(): the text without its leading and trailing blanks.
RECURSIVE lstrip(_)
lstrip(text) ==
  IF text # << >> /\ Head(text) = " " THEN lstrip(Tail(text)) ELSE text

RECURSIVE rstrip(_)
rstrip(text) ==
  IF text # << >> /\ text[Len(text)] = " "
    THEN rstrip(SubSeq(text, 1, Len(text) - 1))
    ELSE text

strip(text) == rstrip(lstrip(text))

\* A check that takes every key for unredeemed.
never_redeemed(upgrade_key) == FALSE

\* if upgrade_key.is_redeemed
already_redeemed(upgrade_key) == upgrade_key.is_redeemed

redeem_upgrade_key(p, text) ==
  /\ p \in profiles
  /\ LET key == strip(text)
     IN IF key = << >>
          THEN UNCHANGED << is_pro, upgrade_keys >>        \* 400 Key is required
        ELSE IF is_pro[p]
          THEN UNCHANGED << is_pro, upgrade_keys >>        \* 400 already pro
        ELSE IF key \notin DOMAIN upgrade_keys
          THEN UNCHANGED << is_pro, upgrade_keys >>        \* 404 Invalid key
        ELSE IF already_redeemed(upgrade_keys[key])
          THEN UNCHANGED << is_pro, upgrade_keys >>        \* 400 already redeemed
        ELSE /\ upgrade_keys' = [upgrade_keys EXCEPT ![key] =
                                   [is_redeemed |-> TRUE, redeemed_by |-> p,
                                    redeemed_at |-> clock]]
             /\ is_pro' = [is_pro EXCEPT ![p] = TRUE]
  /\ UNCHANGED << clock, profiles, coins, time_crystals, current_era, last_coin_update,
                  discoveries, era_unlocks, placed, next_placed_id, game_objects,
                  recipes, rate_limits, paid, in_flight,
                  eras_dir, era_loader, era_result, exported >>

\* ------------------------------------------------------------------------
\* views.py: unlock_era
\* ------------------------------------------------------------------------
\* An unlock that grants no starter object.
no_starter_objects(era_name) == {}

\* starter_objects of unlock_era: the starter rows of the unlocked era.
unlock_starter_objects(era_name) ==
  {o \in game_objects : GameObject[o].is_starter /\ GameObject[o].era_name = era_name}

unlock_era(p, era_name) ==
  /\ p \in profiles
  /\ IF era_name \notin EraNames
       THEN UNCHANGED << coins, time_crystals, current_era, last_coin_update,
                         discoveries, era_unlocks, placed, paid >>
       ELSE \E r \in Reconciled(p) :
              LET cost == ERA_CRYSTAL_COSTS[era_name]
                  status == IF era_name \in r.era_unlocks THEN "AlreadyUnlocked"
                            ELSE IF r.time_crystals < cost THEN "InsufficientFunds"
                            ELSE "ok"
              IN /\ last_coin_update' = [last_coin_update EXCEPT ![p] = r.last_coin_update]
                 /\ paid' = PaidAfter(r)
                 /\ coins' = [coins EXCEPT ![p] = r.coins]
                 /\ placed' = r.placed
                 /\ IF status = "ok"
                      THEN /\ time_crystals' = [time_crystals EXCEPT ![p] = r.time_crystals - cost]
                           /\ current_era' = [current_era EXCEPT ![p] = era_name]
                           /\ era_unlocks' = [era_unlocks EXCEPT ![p] = r.era_unlocks \cup {era_name}]
                           /\ discoveries' = [discoveries EXCEPT ![p] =
                                 r.discoveries \cup unlock_starter_objects(era_name)]
                      ELSE /\ time_crystals' = [time_crystals EXCEPT ![p] = r.time_crystals]
                           /\ current_era' = [current_era EXCEPT ![p] = r.current_era]
                           /\ era_unlocks' = [era_unlocks EXCEPT ![p] = r.era_unlocks]
                           /\ discoveries' = [discoveries EXCEPT ![p] = r.discoveries]
  /\ UNCHANGED << clock, profiles, next_placed_id, game_objects,
                  recipes, rate_limits, is_pro, in_flight,
                  eras_dir, era_loader, era_result, exported, upgrade_keys >>

\* ------------------------------------------------------------------------
\* services/rate_limit.py
\* ------------------------------------------------------------------------
RATE_LIMIT_USER_DISCOVERIES == 4
RATE_LIMIT_GLOBAL_API_CALLS == 50
RATE_LIMIT_WINDOW == 60
RATE_LIMIT_DAILY_STANDARD == 20
RATE_LIMIT_DAILY_PRO == 500
RATE_LIMIT_DAILY_ADMIN == 1000
RATE_LIMIT_DAILY_GLOBAL == 4000

SecondsPerDay == 86400

\* now.replace(hour=0, minute=0, second=0, microsecond=0)
today_start(now) == now - (now % SecondsPerDay)

\* datetime.date() as a day number
date(t) == t \div SecondsPerDay

get_daily_rate_limit(p) ==
  IF is_admin_user(p) THEN RATE_LIMIT_DAILY_ADMIN
  ELSE IF is_pro[p] THEN RATE_LIMIT_DAILY_PRO
  ELSE RATE_LIMIT_DAILY_STANDARD

\* RateLimit.objects.get_or_create(..., defaults={window_start, count: 0})
get_or_create_row(rl, key, window_start) ==
  IF rl[key] = NoRow THEN [count |-> 0, window_start |-> window_start] ELSE rl[key]

\* The daily row after get_or_create and the reset on a new day.
daily_row(rl, key, now) ==
  LET row == get_or_create_row(rl, key, today_start(now))
  IN IF date(row.window_start) < date(today_start(now))
       THEN [count |-> 0, window_start |-> today_start(now)]
       ELSE row

\* A daily check that still allows the request that reaches the limit.
check_daily_rate_limit_lenient(rl, p, now) ==
  LET row == daily_row(rl, << p, "daily_discoveries" >>, now)
  IN [allowed |-> ~(row.count > get_daily_rate_limit(p)),
      rl |-> [rl EXCEPT ![<< p, "daily_discoveries" >>] = row]]

check_daily_rate_limit(rl, p, now) ==
  LET row == daily_row(rl, << p, "daily_discoveries" >>, now)
  IN [allowed |-> ~(row.count >= get_daily_rate_limit(p)),
      rl |-> [rl EXCEPT ![<< p, "daily_discoveries" >>] = row]]

check_global_daily_rate_limit(rl, now) ==
  LET row == daily_row(rl, << GlobalScope, "global_daily_discoveries" >>, now)
  IN [allowed |-> ~(row.count >= RATE_LIMIT_DAILY_GLOBAL),
      rl |-> [rl EXCEPT ![<< GlobalScope, "global_daily_discoveries" >>] = row]]

increment_daily_rate_limit(rl, p, now) ==
  LET row == daily_row(rl, << p, "daily_discoveries" >>, now)
  IN [rl EXCEPT ![<< p, "daily_discoveries" >>] = [row EXCEPT !.count = row.count + 1]]

increment_global_daily_rate_limit(rl, now) ==
  LET row == daily_row(rl, << GlobalScope, "global_daily_discoveries" >>, now)
  IN [rl EXCEPT ![<< GlobalScope, "global_daily_discoveries" >>] =
        [row EXCEPT !.count = row.count + 1]]

\* The row key check_rate_limit and increment_rate_limit work on.
minute_key(scope, limit_type) ==
  << IF limit_type = "user_discovery" THEN scope ELSE GlobalScope, limit_type >>

check_rate_limit(rl, scope, limit_type, now) ==
  LET key == minute_key(scope, limit_type)
      found == get_or_create_row(rl, key, now)
      row == IF now - found.window_start >= RATE_LIMIT_WINDOW
               THEN [count |-> 0, window_start |-> now]
               ELSE found
      max_limit == IF limit_type = "user_discovery"
                     THEN RATE_LIMIT_USER_DISCOVERIES
                     ELSE RATE_LIMIT_GLOBAL_API_CALLS
  IN [allowed |-> ~(row.count >= max_limit), rl |-> [rl EXCEPT ![key] = row]]

increment_rate_limit(rl, scope, limit_type, now) ==
  LET key == minute_key(scope, limit_type)
      row == get_or_create_row(rl, key, now)
  IN [rl EXCEPT ![key] = [row EXCEPT !.count = row.count + 1]]

\* ------------------------------------------------------------------------
\* views.py: craft_objects
\* ------------------------------------------------------------------------
\* Calls of the generation interface the model follows per player and day:
\* the first MaxGenerations of the day and the last MaxGenerations before
\* the player's daily limit.
MaxGenerations == 2

\* prompts/predefined_recipes.json: the keystone recipe of the first era.
PredefinedRecipes ==
  { [input_a |-> "Rock", input_b |-> "Stick",
     output |-> [object_name |-> "Campfire", is_keystone |-> TRUE]] }

NoOverrides == [none |-> TRUE]

get_predefined_recipe(object_a, object_b) ==
  LET hits == {rc \in PredefinedRecipes :
                 \/ (rc.input_a = GameObject[object_a].object_name
                       /\ rc.input_b = GameObject[object_b].object_name)
                 \/ (rc.input_a = GameObject[object_b].object_name
                       /\ rc.input_b = GameObject[object_a].object_name)}
  IN IF hits = {} THEN NoOverrides ELSE (CHOOSE rc \in hits : TRUE).output

\* A comparison that reports a mismatch for every stored row.
predefined_never_matches(game_object, predefined_overrides) == FALSE

\* Every predefined field equals the field of the stored row.
validate_predefined_match(game_object, predefined_overrides) ==
  \/ predefined_overrides = NoOverrides
  \/ \A key \in DOMAIN predefined_overrides :
       GameObject[game_object][key] = predefined_overrides[key]

\* What the generation interface answers: a failure, or the definition of an
\* object (by its row in GameObject) followed by an image call that
\* succeeds or fails.
GenFailure == [failed |-> TRUE, object |-> 0, image_ok |-> FALSE]

GenOutcomes ==
  {GenFailure}
    \cup {[failed |-> FALSE, object |-> o, image_ok |-> b] :
            o \in ObjIds \ SeededObjects, b \in BOOLEAN}

\* call_openai_crafting: the answer of the interface with the predefined
\* fields written over it, as a row of GameObject.
apply_overrides(object, predefined_overrides) ==
  IF predefined_overrides = NoOverrides THEN object
  ELSE CHOOSE k \in ObjIds :
         GameObject[k] = [f \in DOMAIN GameObject[object] |->
                            IF f \in DOMAIN predefined_overrides
                              THEN predefined_overrides[f]
                              ELSE GameObject[object][f]]

\* The request's pair as it is given.
order_as_given(object_a_id, object_b_id) == << object_a_id, object_b_id >>

\* "Normalize order": the pair by ascending id.
normalize_order(object_a_id, object_b_id) ==
  IF object_a_id > object_b_id
    THEN << object_b_id, object_a_id >>
    ELSE << object_a_id, object_b_id >>

\* A rejection that charges the fallback cost.
craft_rejected_charged(p, status, rl) ==
  /\ rate_limits' = rl
  /\ coins' = [coins EXCEPT ![p] = @ - 50]
  /\ UNCHANGED << time_crystals, current_era, last_coin_update, discoveries,
                  era_unlocks, placed, game_objects, recipes, paid >>

\* A request that ends before update_player_coins is called.
craft_rejected(p, status, rl) ==
  /\ rate_limits' = rl
  /\ UNCHANGED << coins, time_crystals, current_era, last_coin_update, discoveries,
                  era_unlocks, placed, game_objects, recipes, paid >>

\* A cost that is the fallback for every era.
crafting_cost_fallback(higher_era) == 50

\* crafting_cost = ERA_CRAFTING_COSTS.get(higher_era, 50)
crafting_cost(higher_era) ==
  IF higher_era \in EraNames THEN ERA_CRAFTING_COSTS[higher_era] ELSE 50

\* The request from update_player_coins on; object_a.id <= object_b.id.
craft_checked(p, object_a, object_b, gen, rl) ==
  \E r \in Reconciled(p) :
    LET higher_era == get_higher_era(GameObject[object_a].era_name,
                                     GameObject[object_b].era_name)
        predefined_overrides == get_predefined_recipe(object_a, object_b)
        existing == {rc \in recipes : rc.object_a = object_a /\ rc.object_b = object_b}
        result_obj == (CHOOSE rc \in existing : TRUE).result
        stale == existing # {}
                   /\ ~validate_predefined_match(result_obj, predefined_overrides)
        \* result_obj.delete() with its cascades, existing_recipe.delete()
        objects1 == IF stale THEN game_objects \ {result_obj} ELSE game_objects
        recipes1 == IF stale
                      THEN {rc \in recipes : rc.object_a # result_obj
                              /\ rc.object_b # result_obj /\ rc.result # result_obj}
                      ELSE recipes
        discoveries0 == [discoveries EXCEPT ![p] = r.discoveries]
        discoveries1 == IF stale
                          THEN [q \in Players |-> discoveries0[q] \ {result_obj}]
                          ELSE discoveries0
        placed1 == IF stale
                     THEN {i \in r.placed : i.game_object # result_obj}
                     ELSE r.placed
        \* the four increments before the generation call
        rl1 == increment_global_daily_rate_limit(
                 increment_daily_rate_limit(
                   increment_rate_limit(
                     increment_rate_limit(rl, p, "user_discovery", clock),
                     GlobalScope, "global_api", clock),
                   p, clock),
                 clock)
        \* the increment before the image call
        rl2 == increment_rate_limit(rl1, GlobalScope, "global_api", clock)
        obj_data == apply_overrides(gen.object, predefined_overrides)
        \* GameObject.objects.filter(object_name=...).first()
        named == {k \in objects1 :
                    GameObject[k].object_name = GameObject[obj_data].object_name}
        existing_obj == CHOOSE k \in named : TRUE
        linked_recipe == [object_a |-> object_a, object_b |-> object_b,
                          result |-> existing_obj]
        new_recipe == [object_a |-> object_a, object_b |-> object_b, result |-> obj_data]
        generations == IF rl[<< p, "daily_discoveries" >>] = NoRow
                         THEN 0
                         ELSE rl[<< p, "daily_discoveries" >>].count
    IN /\ Persist(p, r)
       /\ time_crystals' = [time_crystals EXCEPT ![p] = r.time_crystals]
       /\ IF r.coins < crafting_cost(higher_era) /\ ~is_admin_user(p)
            THEN /\ rate_limits' = rl
                 /\ coins' = [coins EXCEPT ![p] = r.coins]
                 /\ discoveries' = discoveries0
                 /\ placed' = r.placed
                 /\ UNCHANGED << game_objects, recipes >>
          ELSE IF existing # {} /\ ~stale
            THEN /\ rate_limits' = rl
                 /\ coins' = [coins EXCEPT ![p] = r.coins - crafting_cost(higher_era)]
                 /\ discoveries' = [discoveries0 EXCEPT ![p] = @ \cup {result_obj}]
                 /\ placed' = r.placed
                 /\ UNCHANGED << game_objects, recipes >>
          ELSE /\ \/ generations < MaxGenerations
                  \/ generations >= get_daily_rate_limit(p) - MaxGenerations
               /\ placed' = placed1
               /\ IF gen.failed
                    THEN /\ rate_limits' = rl1
                         /\ coins' = [coins EXCEPT ![p] = r.coins]
                         /\ discoveries' = discoveries1
                         /\ game_objects' = objects1
                         /\ recipes' = recipes1
                  ELSE IF named # {}
                    THEN /\ rate_limits' = rl1
                         /\ coins' = [coins EXCEPT ![p] = r.coins - crafting_cost(higher_era)]
                         /\ discoveries' = [discoveries1 EXCEPT ![p] = @ \cup {existing_obj}]
                         /\ game_objects' = objects1
                         /\ recipes' = recipes1 \cup {linked_recipe}
                  ELSE IF ~gen.image_ok
                    THEN /\ rate_limits' = rl2
                         /\ coins' = [coins EXCEPT ![p] = r.coins]
                         /\ discoveries' = discoveries1
                         /\ game_objects' = objects1
                         /\ recipes' = recipes1
                  ELSE /\ rate_limits' = rl2
                       /\ coins' = [coins EXCEPT ![p] = r.coins - crafting_cost(higher_era)]
                       /\ discoveries' = [discoveries1 EXCEPT ![p] = @ \cup {obj_data}]
                       /\ game_objects' = objects1 \cup {obj_data}
                       /\ recipes' = recipes1 \cup {new_recipe}

craft_objects(p, object_a_id, object_b_id, gen) ==
  /\ p \in profiles
  /\ LET c1 == check_daily_rate_limit(rate_limits, p, clock)
         c2 == check_global_daily_rate_limit(c1.rl, clock)
         c3 == check_rate_limit(c2.rl, GlobalScope, "global_api", clock)
         object_a == normalize_order(object_a_id, object_b_id)[1]
         object_b == normalize_order(object_a_id, object_b_id)[2]
     IN IF ~c1.allowed THEN craft_rejected(p, "RateLimited", c1.rl)
        ELSE IF ~c2.allowed THEN craft_rejected(p, "RateLimited", c2.rl)
        ELSE IF ~c3.allowed THEN craft_rejected(p, "RateLimited", c3.rl)
        ELSE IF object_a_id \notin game_objects \/ object_b_id \notin game_objects
          THEN craft_rejected(p, "NotFound", c3.rl)
        ELSE IF object_a_id \notin discoveries[p] \/ object_b_id \notin discoveries[p]
          THEN craft_rejected(p, "Forbidden", c3.rl)
        ELSE IF GameObject[object_a_id].era_name # GameObject[object_b_id].era_name
          THEN craft_rejected(p, "EraMismatch", c3.rl)
        ELSE craft_checked(p, object_a, object_b, gen, c3.rl)
  /\ UNCHANGED << clock, profiles, next_placed_id, is_pro, in_flight,
                  eras_dir, era_loader, era_result, exported, upgrade_keys >>

\* ------------------------------------------------------------------------
\* serializers.py: the import schema
\* ------------------------------------------------------------------------
\* timedelta(days=365 * 10).total_seconds()
max_offset == 365 * 10 * SecondsPerDay

Abs(n) == IF n < 0 THEN -n ELSE n

\* ImportPlacedObjectSerializer: the field ranges and validate()
ImportPlacedObjectValid(row, now) ==
  /\ row.x >= 0 /\ row.x <= 1000
  /\ row.y >= 0 /\ row.y <= 1000
  /\ \A t \in {row.placed_at, row.build_complete_at, row.retire_at} :
       ~(Abs(t - now) > max_offset)
  /\ ~(row.build_complete_at < row.placed_at)
  /\ ~(row.retire_at <= row.placed_at)

\* ImportProfileSerializer: min_value=0 on both amounts (the upper limits
\* lie far above every amount of the model).
ImportProfileValid(profile) ==
  /\ profile.coins >= 0
  /\ profile.time_crystals >= 0

\* A game_object dict of the discoveries list: its id and the kinds of
\* JSON value that occur in it. ObjectRef(n) is the dict {"id": n}.
ObjectRef(n) == [id |-> n, values |-> {"int"}]

ObjectRefs(ids) == [k \in DOMAIN ids |-> ObjectRef(ids[k])]

\* ImportDiscoverySerializer: game_object is a DictField whose child is an
\* IntegerField, so every value of the dict has to be an integer.
ImportDiscoveryValid(entry) == entry.values \subseteq {"int"}

\* GameStateImportSerializer.is_valid()
GameStateImportValid(data, now) ==
  /\ ImportProfileValid(data.profile)
  /\ \A k \in 1..Len(data.discoveries) : ImportDiscoveryValid(data.discoveries[k])
  /\ \A k \in 1..Len(data.placed_objects) :
       ImportPlacedObjectValid(data.placed_objects[k], now)

\* ------------------------------------------------------------------------
\* views.py: import_game
\* ------------------------------------------------------------------------
\* Entries whose GameObject row exists; the others are skipped.
RECURSIVE known_objects(_)
known_objects(entries) ==
  IF entries = << >> THEN << >>
  ELSE (IF Head(entries).id \in game_objects THEN << Head(entries).id >> ELSE << >>)
         \o known_objects(Tail(entries))

RECURSIVE known_placed(_)
known_placed(rows) ==
  IF rows = << >> THEN << >>
  ELSE (IF Head(rows).game_object \in game_objects THEN << Head(rows) >> ELSE << >>)
         \o known_placed(Tail(rows))

\* A second create() of the same unique key raises IntegrityError.
has_duplicates(s) == \E i, j \in 1..Len(s) : i # j /\ s[i] = s[j]

\* PlacedObject.objects.create(...) of import_game, for the k-th kept entry
imported_placed(p, row, k) ==
  [id |-> next_placed_id + k - 1, player |-> p, game_object |-> row.game_object,
   x |-> row.x, y |-> row.y, placed_at |-> row.placed_at,
   build_complete_at |-> row.build_complete_at, retire_at |-> row.retire_at,
   is_building |-> row.is_building, is_operational |-> row.is_operational]

import_game(p, data) ==
  /\ p \in profiles
  /\ LET kept == known_placed(data.placed_objects)
         found == known_objects(data.discoveries)
     IN IF ~GameStateImportValid(data, clock)
             \/ has_duplicates(found) \/ has_duplicates(data.era_unlocks)
          THEN \* 400, or the transaction is rolled back
               UNCHANGED << coins, time_crystals, current_era, is_pro, discoveries,
                            era_unlocks, placed, next_placed_id >>
          ELSE /\ next_placed_id + Len(kept) - 1 <= MaxPlacedId
               /\ coins' = [coins EXCEPT ![p] = data.profile.coins]
               /\ time_crystals' = [time_crystals EXCEPT ![p] = data.profile.time_crystals]
               /\ current_era' = [current_era EXCEPT ![p] = data.profile.current_era]
               /\ is_pro' = [is_pro EXCEPT ![p] = data.profile.is_pro]
               /\ discoveries' = [discoveries EXCEPT ![p] =
                     {found[k] : k \in 1..Len(found)}]
               /\ placed' = (placed \ PlacedOf(placed, p))
                     \cup {imported_placed(p, kept[k], k) : k \in 1..Len(kept)}
               /\ next_placed_id' = next_placed_id + Len(kept)
               /\ era_unlocks' = [era_unlocks EXCEPT ![p] =
                     {data.era_unlocks[k] : k \in 1..Len(data.era_unlocks)}]
  /\ UNCHANGED << clock, profiles, last_coin_update, game_objects, recipes,
                  rate_limits, paid, in_flight,
                  eras_dir, era_loader, era_result, exported, upgrade_keys >>

\* ------------------------------------------------------------------------
\* The requests of the specifications
\* ------------------------------------------------------------------------
\* The players that issue requests.
Actors == {1}

\* place_object requests: object id, x, y.  Object 14 does not exist.
PlaceRequests ==
  { << 3, 0, 0 >>, << 4, 1, 0 >>, << 5, 0, 0 >>, << 6, 2, 2 >>, << 7, 3, 3 >>,
    << 14, 0, 0 >>, << 4, 1000, 1000 >> }

\* craft_objects requests: the two object ids.
CraftRequests == { << 1, 1 >>, << 2, 2 >>, << 2, 1 >>, << 1, 3 >>, << 1, 7 >> }

\* unlock_era requests.
UnlockRequests == {"Hunter-Gatherer", "Agriculture", "Atlantis"}

\* ------------------------------------------------------------------------
\* views.py: export_game
\* ------------------------------------------------------------------------
\* GameObjectSerializer(game_object).data as the discoveries list carries
\* it: the id and the kinds of value among its fields (object_name and
\* the decimal amounts are strings, is_keystone is a boolean,
\* global_modifiers is a list, cap_per_civ may be null).
serialized_object(o) ==
  [id |-> o,
   values |-> {"int", "str", "bool", "list"}
                \cup (IF GameObject[o].cap_per_civ = NULL THEN {"null"} ELSE {})]

\* PlacedObjectSerializer(row).data, of which import reads these fields.
serialized_placed(i) ==
  [game_object |-> i.game_object, x |-> i.x, y |-> i.y, placed_at |-> i.placed_at,
   build_complete_at |-> i.build_complete_at, retire_at |-> i.retire_at,
   is_building |-> i.is_building, is_operational |-> i.is_operational]

\* The ids of a set of rows in ascending order, and the names of a set of
\* eras in the order of ERAS (the order of the entries of a list has no
\* effect on import).
RECURSIVE in_order(_)
in_order(S) ==
  IF S = {} THEN << >>
  ELSE LET x == CHOOSE y \in S : \A z \in S : y <= z
       IN << x >> \o in_order(S \ {x})

eras_in_order(S) ==
  LET keep == {i \in 1..Len(ERAS) : ERAS[i] \in S}
      idx == in_order(keep)
  IN [k \in 1..Len(idx) |-> ERAS[idx[k]]]

\* The response of export_game for outcome r of the reconcile, with the
\* placements in order porder.
export_data(p, r, porder) ==
  [profile |-> [coins |-> r.coins, time_crystals |-> r.time_crystals,
                current_era |-> r.current_era, is_pro |-> is_pro[p]],
   discoveries |-> [k \in 1..Cardinality(r.discoveries) |->
                      serialized_object(in_order(r.discoveries)[k])],
   placed_objects |-> [k \in DOMAIN porder |-> serialized_placed(porder[k])],
   era_unlocks |-> eras_in_order(r.era_unlocks)]

export_game(p) ==
  /\ p \in profiles
  /\ \E r \in Reconciled(p) :
       /\ Persist(p, r)
       /\ coins' = [coins EXCEPT ![p] = r.coins]
       /\ time_crystals' = [time_crystals EXCEPT ![p] = r.time_crystals]
       /\ discoveries' = [discoveries EXCEPT ![p] = r.discoveries]
       /\ placed' = r.placed
       /\ \E porder \in Orders(PlacedOf(r.placed, p)) :
            exported' = << export_data(p, r, porder) >>
  /\ UNCHANGED << clock, profiles, next_placed_id, game_objects,
                  recipes, rate_limits, is_pro, in_flight,
                  eras_dir, era_loader, era_result, upgrade_keys >>

\* One entry of placed_objects in an import.
ImportedField(placed_at, build_complete_at, retire_at, is_building, is_operational) ==
  [game_object |-> 4, x |-> 1, y |-> 0, placed_at |-> placed_at,
   build_complete_at |-> build_complete_at, retire_at |-> retire_at,
   is_building |-> is_building, is_operational |-> is_operational]

ImportedProfile ==
  [coins |-> 50, time_crystals |-> 0, current_era |-> "Hunter-Gatherer", is_pro |-> FALSE]

\* import_game requests, in each of which the game_object of an entry
\* is reduced to its id: the state of a player who placed a Field at time
\* 0, two files edited by hand (both flags set; the second also retires
\* before its construction ends, and lists no discovery), a file the
\* schema rejects, and a file that names an object that does not exist.
ImportRequests ==
  { [profile |-> ImportedProfile, discoveries |-> ObjectRefs(<< 1, 2, 4 >>),
     placed_objects |-> << ImportedField(0, 1, 3, TRUE, FALSE) >>,
     era_unlocks |-> << "Hunter-Gatherer" >>],
    [profile |-> ImportedProfile, discoveries |-> ObjectRefs(<< 1, 2, 4 >>),
     placed_objects |-> << ImportedField(0, 3, 4, TRUE, TRUE) >>,
     era_unlocks |-> << "Hunter-Gatherer" >>],
    [profile |-> ImportedProfile, discoveries |-> ObjectRefs(<< >>),
     placed_objects |-> << ImportedField(0, 3, 1, TRUE, TRUE) >>,
     era_unlocks |-> << "Hunter-Gatherer" >>],
    [profile |-> ImportedProfile, discoveries |-> ObjectRefs(<< 1, 2, 4 >>),
     placed_objects |-> << ImportedField(1, 1, 1, FALSE, TRUE) >>,
     era_unlocks |-> << "Hunter-Gatherer" >>],
    [profile |-> ImportedProfile, discoveries |-> ObjectRefs(<< 1, 14 >>),
     placed_objects |-> << [ImportedField(0, 1, 3, TRUE, FALSE) EXCEPT !.game_object = 14] >>,
     era_unlocks |-> << "Hunter-Gatherer" >>] }

\* ------------------------------------------------------------------------
\* Specifications
\* ------------------------------------------------------------------------
Next ==
  \/ \E d \in TickSteps : Tick(d)
  \/ \E p \in Actors : register(p)
  \/ \E p \in Actors : game_state(p)
  \/ \E p \in Actors, rq \in PlaceRequests : place_object(p, rq[1], rq[2], rq[3])
  \/ \E p \in Actors, k \in 1..MaxPlacedId : remove_object(p, k)
  \/ \E p \in Actors, e \in UnlockRequests : unlock_era(p, e)
  \/ \E p \in Actors, ab \in CraftRequests : craft_objects(p, ab[1], ab[2], GenFailure)
  \/ \E p \in Actors, data \in ImportRequests : import_game(p, data)

Spec == InitDeployed /\ [][Next]_vars

\* Adjustments of the host's clock, in seconds.
SkewSteps == {1}

NextSkew ==
  \/ Next
  \/ \E d \in SkewSteps : StepBack(d)

SpecSkew == InitDeployed /\ [][NextSkew]_vars

\* The same without import_game: register, reconcile, place, remove,
\* unlock and craft on a host whose clock is adjusted.
NextPlaySkew ==
  \/ \E d \in TickSteps : Tick(d)
  \/ \E d \in SkewSteps : StepBack(d)
  \/ \E p \in Actors : register(p)
  \/ \E p \in Actors : game_state(p)
  \/ \E p \in Actors, rq \in PlaceRequests : place_object(p, rq[1], rq[2], rq[3])
  \/ \E p \in Actors, k \in 1..MaxPlacedId : remove_object(p, k)
  \/ \E p \in Actors, e \in UnlockRequests : unlock_era(p, e)
  \/ \E p \in Actors, ab \in CraftRequests : craft_objects(p, ab[1], ab[2], GenFailure)

SpecPlaySkew == InitDeployed /\ [][NextPlaySkew]_vars

\* ------------------------------------------------------------------------
\* The canvas: two players placing and removing objects
\* ------------------------------------------------------------------------
\* The players that place objects: player 1 and the admin account.
Builders == {1, Admin}

\* place_object requests of the builders: huts at (0,0), (1,1) and (2,2),
\* a hut at the far corner of the canvas, a totem, a shrine, a relic and
\* a rock.
CanvasRequests ==
  { << 8, 0, 0 >>, << 8, 1, 1 >>, << 8, 2, 2 >>, << 8, 999, 999 >>,
    << 6, 5, 5 >>, << 10, 6, 6 >>, << 9, 7, 7 >>, << 1, 0, 0 >> }

\* craft_objects requests of player 1: a pair that has a recipe.
CanvasCrafts == { << 1, 1 >> }

\* import_game requests of player 1: a file with two fields on the same
\* cell and a file with a field on the last coordinate the schema accepts.
CanvasImports ==
  { [profile |-> ImportedProfile, discoveries |-> ObjectRefs(<< 1, 2, 4 >>),
     placed_objects |-> << ImportedField(0, 1, 3, TRUE, FALSE),
                           ImportedField(0, 1, 3, TRUE, FALSE) >>,
     era_unlocks |-> << "Hunter-Gatherer" >>],
    [profile |-> ImportedProfile, discoveries |-> ObjectRefs(<< 1, 2, 4 >>),
     placed_objects |-> << [ImportedField(0, 1, 3, TRUE, FALSE) EXCEPT !.x = 1000, !.y = 1000] >>,
     era_unlocks |-> << "Hunter-Gatherer" >>] }

NextCanvas ==
  \/ \E d \in TickSteps : Tick(d)
  \/ \E p \in Actors : register(p)
  \/ \E p \in Builders : game_state(p)
  \/ \E p \in Builders, rq \in CanvasRequests : place_object(p, rq[1], rq[2], rq[3])
  \/ \E p \in Builders, k \in 1..MaxPlacedId : remove_object(p, k)
  \/ \E p \in Actors, ab \in CanvasCrafts : craft_objects(p, ab[1], ab[2], GenFailure)
  \/ \E p \in Actors, data \in CanvasImports : import_game(p, data)

SpecCanvas == InitDeployed /\ [][NextCanvas]_vars

\* ------------------------------------------------------------------------
\* The workshop: two players crafting on a fresh deployment
\* ------------------------------------------------------------------------
\* The database after the migrations, initialize_starter_objects.py and
\* create_admin_account.py: the admin has discovered every object that
\* exists, which are the starter objects.
InitFresh ==
  /\ clock = 0
  /\ profiles = {Admin}
  /\ coins = [p \in Players |-> IF p = Admin THEN STARTING_COINS ELSE 0]
  /\ time_crystals = [p \in Players |-> 0]
  /\ current_era = [p \in Players |-> IF p = Admin THEN "Beyond" ELSE "Hunter-Gatherer"]
  /\ last_coin_update = [p \in Players |-> 0]
  /\ discoveries = [p \in Players |-> IF p = Admin THEN SeededObjects ELSE {}]
  /\ era_unlocks = [p \in Players |-> IF p = Admin THEN EraNames ELSE {}]
  /\ placed = {}
  /\ next_placed_id = 1
  /\ game_objects = SeededObjects
  /\ recipes = {}
  /\ rate_limits = [k \in RateLimitKeys |-> NoRow]
  /\ is_pro = [p \in Players |-> p = Admin]
  /\ paid = [k \in 1..(MaxPlacedId + 1) |-> 0]
  /\ in_flight = Quiet
  /\ eras_dir = DeployedEras
  /\ era_loader = NotLoaded
  /\ era_result = NoCall
  /\ exported = << >>
  /\ upgrade_keys = DeployedKeys

\* The debt up to which the fee-exempt account is followed.
MaxDebt == 0

\* craft_objects requests: Rock + Rock, and Rock + Stick in both orders.
WorkshopPairs == { << 1, 1 >>, << 1, 2 >>, << 2, 1 >> }

\* What the generation interface answers in the workshop: a failure, or an
\* object it names "Campfire" that is not a keystone, with an image call
\* that succeeds or fails.
WorkshopAnswers ==
  { GenFailure,
    [failed |-> FALSE, object |-> 11, image_ok |-> TRUE],
    [failed |-> FALSE, object |-> 11, image_ok |-> FALSE] }

\* place_object requests of the workshop: either Campfire at (0, 0).
WorkshopPlacements == { << 11, 0, 0 >>, << 5, 0, 0 >> }

NextWorkshop ==
  \/ \E p \in Actors : register(p)
  \/ \E p \in Builders, ab \in WorkshopPairs, gen \in WorkshopAnswers :
        coins[p] >= -MaxDebt /\ craft_objects(p, ab[1], ab[2], gen)
  \/ \E p \in Builders, rq \in WorkshopPlacements : place_object(p, rq[1], rq[2], rq[3])

SpecWorkshop == InitFresh /\ [][NextWorkshop]_vars

\* ------------------------------------------------------------------------
\* Two requests of one player handled at the same time
\* ------------------------------------------------------------------------
\* game_state and place_object begin with `profile = request.user.profile`,
\* which reads the PlayerProfile row into an object of the worker.  From
\* then on the handler computes with that object (coins, time_crystals,
\* current_era, last_coin_update) and writes all of its fields back with
\* save(); the PlacedObject, EraUnlock and Discovery rows are queried and
\* updated in the database.  No handler takes a lock or opens a
\* transaction around these steps, so a second worker can read the row
\* between the read and the save of the first.

\* The database as far as the handlers of player p read and write it.
Store(p) ==
  [coins |-> coins[p], time_crystals |-> time_crystals[p],
   current_era |-> current_era[p], last_coin_update |-> last_coin_update[p],
   era_unlocks |-> era_unlocks[p], discoveries |-> discoveries[p],
   placed |-> placed, next_placed_id |-> next_placed_id, retired |-> {}]

\* The profile object a handler gets when it reads the row from store st.
MemoryOf(st) ==
  [coins |-> st.coins, time_crystals |-> st.time_crystals,
   current_era |-> st.current_era, last_coin_update |-> st.last_coin_update]

\* The store after the rest of the handler of request rq of player p: r is
\* the outcome of update_player_coins, then either the response of
\* game_state or the checks, the debit and the create of place_object.
after_request(st, r, p, now, rq) ==
  LET status == IF rq.kind = "place"
                  THEN place_status(p, r, rq.object_id, rq.x, rq.y)
                  ELSE "none"
      go == GameObject[rq.object_id]
      row == [new_placed(p, rq.object_id, rq.x, rq.y, now) EXCEPT !.id = st.next_placed_id]
      kept == [coins |-> r.coins, time_crystals |-> r.time_crystals,
               current_era |-> r.current_era, last_coin_update |-> r.last_coin_update,
               era_unlocks |-> r.era_unlocks, discoveries |-> r.discoveries,
               placed |-> r.placed, next_placed_id |-> st.next_placed_id,
               retired |-> st.retired \cup r.retired]
  IN IF status = "ok"
       THEN [kept EXCEPT !.coins = r.coins - go.cost,
                         !.time_crystals = r.time_crystals - go.time_crystal_cost,
                         !.placed = r.placed \cup {row},
                         !.next_placed_id = st.next_placed_id + 1]
       ELSE kept

\* Every store the handler of rq can leave behind when it runs at time now
\* on store st with the profile object player.
handled(st, player, p, now, rq) ==
  {after_request(st, r, p, now, rq) :
     r \in ReconciledIn(st.placed, st.era_unlocks, st.discoveries, player, p, now)}

\* The requests that are sent at the same time: game_state, and
\* place_object of a Rock at (0, 0) and of a Totem at (5, 5).
RaceRequests ==
  { [kind |-> "state", object_id |-> 0, x |-> 0, y |-> 0],
    [kind |-> "place", object_id |-> 1, x |-> 0, y |-> 0],
    [kind |-> "place", object_id |-> 6, x |-> 5, y |-> 5] }

\* No worker has ended its request since the first of the requests that
\* are being handled began.
NoneDone == \A s \in Slots : ~in_flight.slot[s].done

\* Worker s begins request rq of player p: it reads the profile.
begin_request(s, p, rq) ==
  /\ p \in profiles
  /\ in_flight.slot[s] = NoRequest
  /\ NoneDone
  /\ \A t \in Slots : in_flight.slot[t].player \in {0, p}
  /\ in_flight' =
       [slot |-> [in_flight.slot EXCEPT ![s] =
                    [player |-> p, kind |-> rq.kind, object_id |-> rq.object_id,
                     x |-> rq.x, y |-> rq.y, done |-> FALSE, profile |-> profile_of(p)]],
        base |-> IF in_flight = Quiet THEN Store(p) ELSE in_flight.base]
  /\ UNCHANGED << clock, profiles, coins, time_crystals, current_era, last_coin_update,
                  discoveries, era_unlocks, placed, next_placed_id, game_objects,
                  recipes, rate_limits, is_pro, paid,
                  eras_dir, era_loader, era_result, exported, upgrade_keys >>

\* Worker s runs the rest of its handler, from update_player_coins to the
\* response, with the profile it read when it began.
finish_request(s) ==
  LET rq == in_flight.slot[s]
      p == rq.player
      last == \A t \in Slots \ {s} : in_flight.slot[t] = NoRequest \/ in_flight.slot[t].done
  IN /\ rq # NoRequest
     /\ ~rq.done
     /\ \E st \in handled(Store(p), rq.profile, p, clock, rq) :
          /\ st.next_placed_id <= MaxPlacedId + 1
          /\ coins' = [coins EXCEPT ![p] = st.coins]
          /\ time_crystals' = [time_crystals EXCEPT ![p] = st.time_crystals]
          /\ current_era' = [current_era EXCEPT ![p] = st.current_era]
          /\ last_coin_update' = [last_coin_update EXCEPT ![p] = st.last_coin_update]
          /\ era_unlocks' = [era_unlocks EXCEPT ![p] = st.era_unlocks]
          /\ discoveries' = [discoveries EXCEPT ![p] = st.discoveries]
          /\ placed' = st.placed
          /\ next_placed_id' = st.next_placed_id
          /\ paid' = [k \in DOMAIN paid |-> IF k \in st.retired THEN paid[k] + 1 ELSE paid[k]]
     /\ in_flight' = IF last THEN Quiet
                     ELSE [in_flight EXCEPT !.slot[s].done = TRUE]
     /\ UNCHANGED << clock, profiles, game_objects, recipes, rate_limits, is_pro,
                  eras_dir, era_loader, era_result, exported, upgrade_keys >>

\* Time passes between the rounds of requests.
NextRace ==
  \/ \E d \in TickSteps : in_flight = Quiet /\ Tick(d)
  \/ \E p \in Actors : in_flight = Quiet /\ register(p)
  \/ \E s \in Slots, p \in Builders, rq \in RaceRequests : begin_request(s, p, rq)
  \/ \E s \in Slots : finish_request(s)

SpecRace == InitDeployed /\ [][NextRace]_vars

\* ------------------------------------------------------------------------
\* The laboratory: crafting under quotas
\* ------------------------------------------------------------------------
\* RateLimit tables of a day that began at time 0.  No request was counted
\* yet; player 1 spent the day's quota of a standard account on generation
\* calls that failed; other accounts used up the day's global quota; other
\* accounts used up the global quota of the current minute.
LabQuotas ==
  { [k \in RateLimitKeys |-> NoRow],
    [k \in RateLimitKeys |->
       CASE k = << 1, "daily_discoveries" >> ->
              [count |-> RATE_LIMIT_DAILY_STANDARD, window_start |-> 0]
         [] k = << 1, "user_discovery" >> ->
              [count |-> RATE_LIMIT_DAILY_STANDARD, window_start |-> 0]
         [] k = << GlobalScope, "global_daily_discoveries" >> ->
              [count |-> RATE_LIMIT_DAILY_STANDARD, window_start |-> 0]
         [] k = << GlobalScope, "global_api" >> ->
              [count |-> RATE_LIMIT_DAILY_STANDARD, window_start |-> 0]
         [] OTHER -> NoRow],
    [k \in RateLimitKeys |->
       CASE k = << GlobalScope, "global_daily_discoveries" >> ->
              [count |-> RATE_LIMIT_DAILY_GLOBAL, window_start |-> 0]
         [] k = << GlobalScope, "global_api" >> ->
              [count |-> 0, window_start |-> 0]
         [] OTHER -> NoRow],
    [k \in RateLimitKeys |->
       CASE k = << GlobalScope, "global_daily_discoveries" >> ->
              [count |-> RATE_LIMIT_GLOBAL_API_CALLS, window_start |-> 0]
         [] k = << GlobalScope, "global_api" >> ->
              [count |-> RATE_LIMIT_GLOBAL_API_CALLS, window_start |-> 0]
         [] OTHER -> NoRow] }

\* A fresh deployment in which player 1 has registered at time 0, under
\* each of the quota tables.
InitLab ==
  /\ clock = 0
  /\ profiles = Builders
  /\ coins = [p \in Players |-> STARTING_COINS]
  /\ time_crystals = [p \in Players |-> 0]
  /\ current_era = [p \in Players |-> IF p = Admin THEN "Beyond" ELSE "Hunter-Gatherer"]
  /\ last_coin_update = [p \in Players |-> 0]
  /\ discoveries = [p \in Players |->
                      IF p = Admin THEN SeededObjects
                      ELSE {o \in SeededObjects : GameObject[o].era_name = "Hunter-Gatherer"}]
  /\ era_unlocks = [p \in Players |-> IF p = Admin THEN EraNames ELSE {"Hunter-Gatherer"}]
  /\ placed = {}
  /\ next_placed_id = 1
  /\ game_objects = SeededObjects
  /\ recipes = {}
  /\ rate_limits \in LabQuotas
  /\ is_pro = [p \in Players |-> p = Admin]
  /\ paid = [k \in 1..(MaxPlacedId + 1) |-> 0]
  /\ in_flight = Quiet
  /\ eras_dir = DeployedEras
  /\ era_loader = NotLoaded
  /\ era_result = NoCall
  /\ exported = << >>
  /\ upgrade_keys = DeployedKeys

\* craft_objects requests of the laboratory, as player and pair: player 1
\* sends Rock + Rock, Stick + Stick and Driftwood + Driftwood, the admin
\* Stick + Stick and Rock + Seed (objects of two eras).
LabRequests ==
  { << 1, 1, 1 >>, << 1, 2, 2 >>, << 1, 13, 13 >>, << Admin, 2, 2 >>, << Admin, 1, 7 >> }

\* What the generation interface answers in the laboratory: a failure, a
\* Plough or a Driftwood.
LabAnswers ==
  { GenFailure,
    [failed |-> FALSE, object |-> 12, image_ok |-> TRUE],
    [failed |-> FALSE, object |-> 13, image_ok |-> TRUE] }

\* The step of the laboratory's clock: the window of the per-minute limits.
LabSteps == {RATE_LIMIT_WINDOW}

NextLab ==
  \/ \E d \in LabSteps : Tick(d)
  \/ \E rq \in LabRequests, gen \in LabAnswers :
        coins[rq[1]] >= -MaxDebt /\ craft_objects(rq[1], rq[2], rq[3], gen)

SpecLab == InitLab /\ [][NextLab]_vars

\* ------------------------------------------------------------------------
\* The gate: requests that the validation of place_object and unlock_era
\* turns away, next to the ones that make them possible
\* ------------------------------------------------------------------------
\* place_object requests: a rock at (0,0) (twice: the cell is then taken),
\* a totem at (5,5) and at (7,7) (one per civilisation), a shrine (costs
\* a time crystal), an object that does not exist and a rock outside the
\* canvas. Player 1 has discovered neither totem nor shrine.
GateRequests ==
  { << 1, 0, 0 >>, << 6, 5, 5 >>, << 6, 7, 7 >>, << 10, 6, 6 >>,
    << 14, 0, 0 >>, << 1, 1000, 1000 >> }

NextGate ==
  \/ \E d \in TickSteps : Tick(d)
  \/ \E p \in Actors : register(p)
  \/ \E p \in Builders, rq \in GateRequests : place_object(p, rq[1], rq[2], rq[3])
  \/ \E p \in Builders, e \in UnlockRequests : unlock_era(p, e)

SpecGate == InitDeployed /\ [][NextGate]_vars

\* ------------------------------------------------------------------------
\* The era table: directories of era files that are and are not valid
\* ------------------------------------------------------------------------
MaxEraFiles == 3

\* The keys a file of the directories below has: all, all but keystone,
\* all but starters.
EraFileKeys == {RequiredFields, RequiredFields \ {"keystone"}, RequiredFields \ {"starters"}}

\* Directories of up to MaxEraFiles files; the file at position i defines
\* era ERAS[i] with any order of 1..MaxEraFiles.
EraDirs ==
  UNION {[1..n -> (1..MaxEraFiles) \X EraFileKeys] : n \in 0..MaxEraFiles}

\* The database after the migrations and the seeding, as in InitSeeded,
\* in a fresh process that finds one of the directories.
InitEras ==
  /\ clock = 0
  /\ profiles = {}
  /\ coins = [p \in Players |-> 0]
  /\ time_crystals = [p \in Players |-> 0]
  /\ current_era = [p \in Players |-> "Hunter-Gatherer"]
  /\ last_coin_update = [p \in Players |-> 0]
  /\ discoveries = [p \in Players |-> {}]
  /\ era_unlocks = [p \in Players |-> {}]
  /\ placed = {}
  /\ next_placed_id = 1
  /\ game_objects = SeededObjects
  /\ recipes = {}
  /\ rate_limits = [k \in RateLimitKeys |-> NoRow]
  /\ is_pro = [p \in Players |-> FALSE]
  /\ paid = [k \in 1..(MaxPlacedId + 1) |-> 0]
  /\ in_flight = Quiet
  /\ \E d \in EraDirs :
       eras_dir = [i \in DOMAIN d |-> EraFile(d[i][1], ERAS[i], d[i][2])]
  /\ era_loader = NotLoaded
  /\ era_result = NoCall
  /\ exported = << >>
  /\ upgrade_keys = DeployedKeys

\* A caller (schema_builder.py) obtains the loader.
get_era_loader ==
  LET a == era_loader_after(era_loader, eras_dir)
  IN /\ era_loader' = a.loader
     /\ era_result' = [call |-> "get_era_loader", raised |-> a.raised, failed |-> FALSE,
                        complete |-> FALSE, flagged |-> {},
                        table |-> IF a.raised = "" THEN a.loader.eras ELSE << >>]
     /\ UNCHANGED << clock, profiles, coins, time_crystals, current_era, last_coin_update,
                     discoveries, era_unlocks, placed, next_placed_id, game_objects,
                     recipes, rate_limits, is_pro, paid, in_flight, eras_dir,
                     exported, upgrade_keys >>

\* manage.py validate_eras
validate_eras ==
  LET a == era_loader_after(era_loader, eras_dir)
  IN /\ era_loader' = a.loader
     /\ era_result' = validate_eras_report(a.loader, a.raised)
     /\ UNCHANGED << clock, profiles, coins, time_crystals, current_era, last_coin_update,
                     discoveries, era_unlocks, placed, next_placed_id, game_objects,
                     recipes, rate_limits, is_pro, paid, in_flight, eras_dir,
                     exported, upgrade_keys >>

NextEras ==
  \/ get_era_loader
  \/ validate_eras

SpecEras == InitEras /\ [][NextEras]_vars

\* ------------------------------------------------------------------------
\* Players who keep issuing requests
\* ------------------------------------------------------------------------
\* place_object requests: a field at (1,0), which takes a second to build
\* and works for two, and a rock at (0,0), which works at once.
LiveRequests == { << 4, 1, 0 >>, << 1, 0, 0 >> }

NextLive ==
  \/ \E d \in TickSteps : Tick(d)
  \/ \E p \in Actors : register(p)
  \/ \E p \in Builders : game_state(p)
  \/ \E p \in Builders, rq \in LiveRequests : place_object(p, rq[1], rq[2], rq[3])
  \/ \E p \in Builders, k \in 1..MaxPlacedId : remove_object(p, k)

\* Every player keeps issuing requests: a state query that has something
\* to reconcile is not put off forever.
SpecLive ==
  /\ InitDeployed
  /\ [][NextLive]_vars
  /\ \A p \in Builders : WF_vars(game_state(p))

\* ------------------------------------------------------------------------
\* Modifiers of both kinds on one category
\* ------------------------------------------------------------------------
\* The recipes of a deployment in which the Plough was generated as well.
FoldRecipes == DeployedRecipes \cup { [object_a |-> 2, object_b |-> 3, result |-> 12] }

\* A running deployment as in InitDeployed in which the admin account also
\* generated the Plough before create_admin_account.py was run again.
InitFold ==
  /\ clock = 0
  /\ profiles = {Admin}
  /\ coins = [p \in Players |-> IF p = Admin THEN STARTING_COINS ELSE 0]
  /\ time_crystals = [p \in Players |-> 0]
  /\ current_era = [p \in Players |-> IF p = Admin THEN "Beyond" ELSE "Hunter-Gatherer"]
  /\ last_coin_update = [p \in Players |-> 0]
  /\ discoveries = [p \in Players |-> IF p = Admin THEN DeployedObjects \cup {12} ELSE {}]
  /\ era_unlocks = [p \in Players |-> IF p = Admin THEN EraNames ELSE {}]
  /\ placed = {}
  /\ next_placed_id = 1
  /\ game_objects = DeployedObjects \cup {12}
  /\ recipes = FoldRecipes
  /\ rate_limits =
       [k \in RateLimitKeys |->
          CASE k = << Admin, "daily_discoveries" >> ->
                 [count |-> Cardinality(FoldRecipes), window_start |-> 0]
            [] k = << Admin, "user_discovery" >> ->
                 [count |-> Cardinality(FoldRecipes), window_start |-> 0]
            [] k = << GlobalScope, "global_daily_discoveries" >> ->
                 [count |-> Cardinality(FoldRecipes), window_start |-> 0]
            [] k = << GlobalScope, "global_api" >> ->
                 [count |-> 2 * Cardinality(FoldRecipes), window_start |-> 0]
            [] OTHER -> NoRow]
  /\ is_pro = [p \in Players |-> p = Admin]
  /\ paid = [k \in 1..(MaxPlacedId + 1) |-> 0]
  /\ in_flight = Quiet
  /\ eras_dir = DeployedEras
  /\ era_loader = NotLoaded
  /\ era_result = NoCall
  /\ exported = << >>
  /\ upgrade_keys = DeployedKeys

\* place_object requests: a berry farm (doubles the income of farms), a
\* plough (adds to the income of farms), a field and a rock.
FoldRequests == { << 3, 0, 0 >>, << 12, 1, 0 >>, << 4, 2, 0 >>, << 1, 3, 0 >> }

NextFold ==
  \/ \E d \in TickSteps : Tick(d)
  \/ \E p \in Actors : register(p)
  \/ \E p \in Builders : game_state(p)
  \/ \E p \in Builders, rq \in FoldRequests : place_object(p, rq[1], rq[2], rq[3])
  \/ \E p \in Builders, k \in 1..MaxPlacedId : remove_object(p, k)

SpecFold == InitFold /\ [][NextFold]_vars

\* ------------------------------------------------------------------------
\* Export and import
\* ------------------------------------------------------------------------
\* place_object requests of the players who export: a rock and a stick.
TripRequests == { << 1, 0, 0 >>, << 2, 1, 0 >> }

\* The file a client makes from an export by reducing every game_object
\* of the discoveries list to its id.
reduced(data) ==
  [data EXCEPT !.discoveries = [k \in DOMAIN data.discoveries |->
                                  ObjectRef(data.discoveries[k].id)]]

NextTrip ==
  \/ \E d \in TickSteps : Tick(d)
  \/ \E p \in Actors : register(p)
  \/ \E p \in Builders, rq \in TripRequests : place_object(p, rq[1], rq[2], rq[3])
  \/ \E p \in Builders : export_game(p)
  \/ \E q \in Builders : exported # << >> /\ import_game(q, exported[1])
  \/ \E q \in Builders : exported # << >> /\ import_game(q, reduced(exported[1]))

SpecTrip == InitDeployed /\ [][NextTrip]_vars

\* ------------------------------------------------------------------------
\* The daily quotas at their limits
\* ------------------------------------------------------------------------
\* A RateLimit table with daily counts n of player p and g of all players,
\* made on the day of time 0, and no per-minute rows.
QuotaTable(p, n, g) ==
  [k \in RateLimitKeys |->
     CASE k = << p, "daily_discoveries" >> -> [count |-> n, window_start |-> 0]
       [] k = << GlobalScope, "global_daily_discoveries" >> ->
            [count |-> g, window_start |-> 0]
       [] OTHER -> NoRow]

\* The days of the quota specification begin with: a standard player, a
\* pro player and the admin one call before their limit, and the server
\* one call before the global limit.
QuotaScenarios ==
  { [rl |-> QuotaTable(1, RATE_LIMIT_DAILY_STANDARD - 1, RATE_LIMIT_DAILY_STANDARD - 1),
     pro |-> FALSE],
    [rl |-> QuotaTable(1, RATE_LIMIT_DAILY_PRO - 1, RATE_LIMIT_DAILY_PRO - 1),
     pro |-> TRUE],
    [rl |-> QuotaTable(Admin, RATE_LIMIT_DAILY_ADMIN - 1, RATE_LIMIT_DAILY_ADMIN - 1),
     pro |-> FALSE],
    [rl |-> QuotaTable(1, 0, RATE_LIMIT_DAILY_GLOBAL - 1), pro |-> FALSE] }

\* A deployment as in InitLab in the course of a day on which the
\* generated objects were removed again by the operator.
InitQuota ==
  /\ clock = 0
  /\ profiles = Builders
  /\ coins = [p \in Players |-> STARTING_COINS]
  /\ time_crystals = [p \in Players |-> 0]
  /\ current_era = [p \in Players |-> IF p = Admin THEN "Beyond" ELSE "Hunter-Gatherer"]
  /\ last_coin_update = [p \in Players |-> 0]
  /\ discoveries = [p \in Players |->
                      IF p = Admin THEN SeededObjects
                      ELSE {o \in SeededObjects : GameObject[o].era_name = "Hunter-Gatherer"}]
  /\ era_unlocks = [p \in Players |-> IF p = Admin THEN EraNames ELSE {"Hunter-Gatherer"}]
  /\ placed = {}
  /\ next_placed_id = 1
  /\ game_objects = SeededObjects
  /\ recipes = {}
  /\ \E sc \in QuotaScenarios :
       /\ rate_limits = sc.rl
       /\ is_pro = [p \in Players |-> p = Admin \/ (p = 1 /\ sc.pro)]
  /\ paid = [k \in 1..(MaxPlacedId + 1) |-> 0]
  /\ in_flight = Quiet
  /\ eras_dir = DeployedEras
  /\ era_loader = NotLoaded
  /\ era_result = NoCall
  /\ exported = << >>
  /\ upgrade_keys = DeployedKeys

\* craft_objects requests of the quota specification, as player and pair.
QuotaRequests ==
  { << 1, 1, 1 >>, << 1, 2, 2 >>, << Admin, 1, 1 >>, << Admin, 2, 2 >> }

\* What the generation interface answers: a failure or a Plough.
QuotaAnswers ==
  { GenFailure, [failed |-> FALSE, object |-> 12, image_ok |-> TRUE] }

\* The step of the clock: a day.
QuotaSteps == {SecondsPerDay}

NextQuota ==
  \/ \E d \in QuotaSteps : Tick(d)
  \/ \E rq \in QuotaRequests, gen \in QuotaAnswers :
        coins[rq[1]] >= -MaxDebt /\ craft_objects(rq[1], rq[2], rq[3], gen)

SpecQuota == InitQuota /\ [][NextQuota]_vars

\* ------------------------------------------------------------------------
\* The per-minute counters in the course of a minute
\* ------------------------------------------------------------------------
\* A RateLimit table of a minute that began at time 0, in which player 1
\* has made u generation calls and all players together n external calls;
\* player 1 has made d generation calls today.
MinuteTable(u, n, d) ==
  [k \in RateLimitKeys |->
     CASE k = << 1, "user_discovery" >> -> [count |-> u, window_start |-> 0]
       [] k = << GlobalScope, "global_api" >> -> [count |-> n, window_start |-> 0]
       [] k = << 1, "daily_discoveries" >> -> [count |-> d, window_start |-> 0]
       [] k = << GlobalScope, "global_daily_discoveries" >> ->
            [count |-> d, window_start |-> 0]
       [] OTHER -> NoRow]

\* The minutes the specification begins with: player 1 one call before the
\* per-player limit, and the server one, two and three calls before the
\* limit of external calls.
MinuteQuotas ==
  { MinuteTable(RATE_LIMIT_USER_DISCOVERIES - 1, 2 * (RATE_LIMIT_USER_DISCOVERIES - 1),
                RATE_LIMIT_DAILY_STANDARD - MaxGenerations),
    MinuteTable(0, RATE_LIMIT_GLOBAL_API_CALLS - 1, RATE_LIMIT_DAILY_STANDARD - MaxGenerations),
    MinuteTable(0, RATE_LIMIT_GLOBAL_API_CALLS - 2, RATE_LIMIT_DAILY_STANDARD - MaxGenerations),
    MinuteTable(0, RATE_LIMIT_GLOBAL_API_CALLS - 3, RATE_LIMIT_DAILY_STANDARD - MaxGenerations) }

\* A deployment as in InitLab in the course of such a minute.
InitMinute ==
  /\ clock = 0
  /\ profiles = Builders
  /\ coins = [p \in Players |-> STARTING_COINS]
  /\ time_crystals = [p \in Players |-> 0]
  /\ current_era = [p \in Players |-> IF p = Admin THEN "Beyond" ELSE "Hunter-Gatherer"]
  /\ last_coin_update = [p \in Players |-> 0]
  /\ discoveries = [p \in Players |->
                      IF p = Admin THEN SeededObjects
                      ELSE {o \in SeededObjects : GameObject[o].era_name = "Hunter-Gatherer"}]
  /\ era_unlocks = [p \in Players |-> IF p = Admin THEN EraNames ELSE {"Hunter-Gatherer"}]
  /\ placed = {}
  /\ next_placed_id = 1
  /\ game_objects = SeededObjects
  /\ recipes = {}
  /\ rate_limits \in MinuteQuotas
  /\ is_pro = [p \in Players |-> p = Admin]
  /\ paid = [k \in 1..(MaxPlacedId + 1) |-> 0]
  /\ in_flight = Quiet
  /\ eras_dir = DeployedEras
  /\ era_loader = NotLoaded
  /\ era_result = NoCall
  /\ exported = << >>
  /\ upgrade_keys = DeployedKeys

\* The steps of the clock: a second and the window of the counters.
MinuteSteps == {1, RATE_LIMIT_WINDOW}

\* What the generation interface answers: a failure, a Plough, and a
\* Driftwood whose image could not be made.
MinuteAnswers ==
  { GenFailure,
    [failed |-> FALSE, object |-> 12, image_ok |-> TRUE],
    [failed |-> FALSE, object |-> 13, image_ok |-> FALSE] }

NextMinute ==
  \/ \E d \in MinuteSteps : Tick(d)
  \/ \E rq \in QuotaRequests, gen \in MinuteAnswers :
        coins[rq[1]] >= -MaxDebt /\ craft_objects(rq[1], rq[2], rq[3], gen)

SpecMinute == InitMinute /\ [][NextMinute]_vars

\* ------------------------------------------------------------------------
\* Upgrade keys
\* ------------------------------------------------------------------------
\* The texts sent as key: the two keys, the first also with blanks around
\* it, a key that does not exist, no text and a blank.
KeyRequests ==
  { << "K", "1" >>, << " ", "K", "1", " " >>, << "K", "2" >>, << "K", "9" >>,
    << >>, << " " >> }

NextKeys ==
  \/ \E d \in TickSteps : Tick(d)
  \/ \E p \in Players : register(p)
  \/ \E p \in Players, text \in KeyRequests : redeem_upgrade_key(p, text)

SpecKeys == InitSeeded /\ [][NextKeys]_vars

\* ------------------------------------------------------------------------
\* The economy as the specification states it
\* ------------------------------------------------------------------------
\* Whether a modifier lists category c.
Lists(mod, c) ==
  \E n \in 1..Len(mod.affected_categories) : mod.affected_categories[n] = c

\* M(c), one carrier at a time: multiplicative entries multiply, any other
\* stacking adds (multiplier - 1).
RECURSIVE FoldModifiers(_, _, _)
FoldModifiers(mods, c, acc) ==
  IF mods = << >> THEN acc
  ELSE LET m == Head(mods)
       IN FoldModifiers(Tail(mods), c,
            IF m.active_when = "operational" /\ Lists(m, c)
              THEN (IF m.stacking = "multiplicative"
                      THEN acc * m.income_multiplier
                      ELSE acc + (m.income_multiplier - 1))
              ELSE acc)

RECURSIVE Multiplier(_, _, _)
Multiplier(S, c, acc) ==
  IF S = {} THEN acc
  ELSE LET i == CHOOSE x \in S : TRUE
       IN Multiplier(S \ {i}, c,
            FoldModifiers(GameObject[i.game_object].global_modifiers, c, acc))

\* Sum over S of income_per_second * M(category)
Income(S) ==
  SumOver({i.id : i \in S},
          [k \in {i.id : i \in S} |->
             LET go == GameObject[(CHOOSE i \in S : i.id = k).game_object]
             IN go.income_per_second * Multiplier(S, go.category, 1)])

\* Sum over S of time_crystal_generation
Crystals(S) ==
  SumOver({i.id : i \in S},
          [k \in {i.id : i \in S} |->
             GameObject[(CHOOSE i \in S : i.id = k).game_object].time_crystal_generation])

\* Sum over D of cost * retire_payout_coins_pct
Payouts(D) ==
  SumOver({i.id : i \in D},
          [k \in {i.id : i \in D} |->
             LET go == GameObject[(CHOOSE i \in D : i.id = k).game_object]
             IN PctOf(go.cost, go.retire_payout_coins_pct)])

\* An instance of p that is operational once the build-completion phase at
\* the current time has run.
OperationalNow(i, p) ==
  /\ i.player = p
  /\ (i.is_operational \/ (i.is_building /\ i.build_complete_at <= clock))

\* The instances the retirement phase at the current time pays out.
Due(p) ==
  {i \in placed : OperationalNow(i, p) /\ i.retire_at # NULL /\ i.retire_at <= clock}

\* The set S of the accrual phase at the current time.
Earning(p) ==
  {i \in placed : OperationalNow(i, p) /\ (i.retire_at = NULL \/ i.retire_at > clock)}

\* The row of placed' that has the id of row i.
After(i) == CHOOSE j \in placed' : j.id = i.id

\* A placement made by place_object when the clock read 0 or 1.
Placement(o, x, y, at, op) ==
  \E i \in placed :
    /\ i.player = 1 /\ i.game_object = o /\ i.x = x /\ i.y = y /\ i.placed_at = at
    /\ i.build_complete_at = at + GameObject[o].build_time_sec
    /\ i.retire_at = i.build_complete_at + GameObject[o].operation_duration_sec
    /\ ~i.is_building /\ i.is_operational = op

\* ------------------------------------------------------------------------
\* C1
\* ------------------------------------------------------------------------
\* Running update_player_coins now changes nothing.
Settled(p) ==
  \A r \in Reconciled(p) :
    /\ r.coins = coins[p] /\ r.time_crystals = time_crystals[p]
    /\ r.last_coin_update = last_coin_update[p]
    /\ r.placed = placed
    /\ r.era_unlocks = era_unlocks[p] /\ r.current_era = current_era[p]
    /\ r.discoveries = discoveries[p]
    /\ r.retired = {} /\ r.coins_earned = 0 /\ r.crystals_earned = 0

\* C1: reconcile is idempotent at a fixed instant.  In the state a run of
\* update_player_coins leaves behind, a second run at the same time leaves
\* coins, time crystals, last_coin_update, every placement's flags, the era
\* unlocks and the discoveries as they are: no second payout, accrual or
\* era unlock.
C1_ReconcileIdempotent ==
  [][\A p \in Players : game_state(p) => Settled(p)']_vars

\* A Berry Farm placed at time 0 has been paid out by a run at time 2, the
\* instant of its retire_at, and the clock still reads 2.
C1_Witness ==
  /\ clock = 2 /\ last_coin_update[1] = 2
  /\ \E i \in placed : /\ Placement(3, 0, 0, 0, FALSE) /\ i.game_object = 3
                       /\ paid[i.id] = 1

\* ------------------------------------------------------------------------
\* C2
\* ------------------------------------------------------------------------
\* C2: the accrual phase never decreases a balance: whatever the current
\* time is, also one before last_coin_update, the coins and the time
\* crystals a run of update_player_coins accrues are not negative (every
\* row of GameObject has a non-negative income and generation).
C2_AccrualNeverDecreases ==
  \A p \in profiles : \A r \in Reconciled(p) :
    r.coins_earned >= 0 /\ r.crystals_earned >= 0

\* ------------------------------------------------------------------------
\* C3
\* ------------------------------------------------------------------------
\* The rows of the three cases the specification works out.
Instance(k, o) == [id |-> k, player |-> 1, game_object |-> o]

C3_Cases ==
  /\ total_income(<< >>, << >>) * 3600 = 0
  /\ total_crystals(<< >>) * 3600 = 0
  /\ \A s \in Orders({Instance(1, 6)}) : total_income(s, s) * 10 = 20
  /\ \A s \in Orders({Instance(1, 3), Instance(2, 4)}) : total_income(s, s) * 1 = 4

AsPlaced(i) ==
  /\ ~(i.is_building /\ i.is_operational)
  /\ i.build_complete_at >= i.placed_at /\ i.retire_at > i.build_complete_at
  /\ i.is_operational => i.build_complete_at <= clock

\* C4: after a run of update_player_coins at time now, every instance that
\* was building with build_complete_at <= now is not building and is
\* operational, every instance with build_complete_at > now has kept its
\* flags, and no instance is building with build_complete_at <= now.
\* Stated for the instances that are as place_object writes them.
C4_BuildCompletion ==
  [][\A p \in Players : game_state(p) =>
       \A i \in {i \in PlacedOf(placed, p) : AsPlaced(i)} :
         /\ (i.is_building /\ i.build_complete_at <= clock)
              => (~After(i).is_building /\ After(i).is_operational)
         /\ i.build_complete_at > clock
              => (After(i).is_building = i.is_building
                    /\ After(i).is_operational = i.is_operational)
         /\ ~(After(i).is_building /\ After(i).build_complete_at <= clock)]_vars

\* C4, amended: after a run of update_player_coins at time now, every
\* instance that was building with build_complete_at <= now is not
\* building, and is operational unless its retire_at <= now, in which case
\* the retirement phase of the same run has retired it; every instance
\* with build_complete_at > now has kept its building flag, and its
\* operational flag unless the same run has retired it; no instance is
\* building with build_complete_at <= now.
C4_BuildCompletionAmended ==
  [][\A p \in Players : game_state(p) =>
       \A i \in PlacedOf(placed, p) :
         /\ (i.is_building /\ i.build_complete_at <= clock)
              => (~After(i).is_building /\ After(i).is_operational = (i \notin Due(p)))
         /\ i.build_complete_at > clock
              => (After(i).is_building = i.is_building
                    /\ After(i).is_operational = (i.is_operational /\ i \notin Due(p)))
         /\ ~(After(i).is_building /\ After(i).build_complete_at <= clock)]_vars

\* A Campfire placed at time 0 (built at 2, retired at 3) after the first
\* run that followed its construction, at time 10: completed, retired and
\* paid in one run, and the next era unlocked.
C4_Witness ==
  /\ clock = 10 /\ last_coin_update[1] = 10
  /\ Placement(5, 0, 0, 0, FALSE)
  /\ \E i \in placed : i.game_object = 5 /\ paid[i.id] = 1
  /\ "Agriculture" \in era_unlocks[1]

\* ------------------------------------------------------------------------
\* C5
\* ------------------------------------------------------------------------
\* C5: a run of update_player_coins at time now credits exactly cost *
\* retire_payout_coins_pct for every operational instance with a non-null
\* retire_at <= now (next to the accrual), leaves each of them in the table
\* with is_operational false, and no instance is ever paid twice.
C5_RetirementPayout ==
  [][\A p \in Players : game_state(p) =>
       /\ coins'[p] = coins[p] + Payouts(Due(p))
                        + (clock - last_coin_update[p]) * Income(Earning(p))
       /\ \A i \in Due(p) : \E j \in placed' : j.id = i.id /\ ~j.is_operational
       /\ \A k \in DOMAIN paid : paid'[k] <= 1]_vars

\* ------------------------------------------------------------------------
\* C6
\* ------------------------------------------------------------------------
\* C6: an instance whose retire_at <= now contributes no income, no time
\* crystals and no modifier to a run of update_player_coins at time now,
\* and neither does an instance that is building: what the run accrues is
\* the income and the generation of the instances that are operational,
\* not building, and retire after now.
C6_AccrualSet ==
  \A p \in profiles : \A r \in Reconciled(p) :
    LET dt == clock - last_coin_update[p]
        S == {i \in Earning(p) : ~(i.is_building /\ i.build_complete_at > clock)}
    IN /\ r.coins_earned = dt * Income(S)
       /\ r.crystals_earned = dt * Crystals(S)

\* ------------------------------------------------------------------------
\* C7
\* ------------------------------------------------------------------------
\* C7: no placed instance is building and operational at the same time.
C7_BuildingXorOperational ==
  \A i \in placed : ~(i.is_building /\ i.is_operational)

\* ------------------------------------------------------------------------
\* C8
\* ------------------------------------------------------------------------
\* C8: for every keystone instance whose construction has completed
\* (operational or retired), the era after the keystone's era, if there is
\* one, is unlocked for the player; and the step that creates an EraUnlock
\* for the era after a completed keystone's sets current_era to that era
\* and leaves a Discovery for each of its starter objects.
C8_KeystoneUnlocks ==
  [][/\ \A i \in placed' :
          (GameObject[i.game_object].is_keystone /\ ~i.is_building
             /\ get_next_era(GameObject[i.game_object].era_name) # NoEra)
            => get_next_era(GameObject[i.game_object].era_name) \in era_unlocks'[i.player]
     /\ \A p \in Players : \A e \in EraNames :
          (game_state(p) /\ e \in era_unlocks'[p] \ era_unlocks[p])
            => (current_era'[p] = e /\ starter_objects(e) \subseteq discoveries'[p])]_vars

\* ------------------------------------------------------------------------
\* C9
\* ------------------------------------------------------------------------
\* C9: every placed instance has build_complete_at >= placed_at and, when
\* retire_at is set, retire_at > build_complete_at.
C9_TimestampOrder ==
  \A i \in placed :
    /\ i.build_complete_at >= i.placed_at
    /\ i.retire_at # NULL => i.retire_at > i.build_complete_at

\* ------------------------------------------------------------------------
\* C10
\* ------------------------------------------------------------------------
\* C10: every placed instance of a player refers to an object for which
\* that player holds a Discovery.
C10_PlacedIsDiscovered ==
  \A i \in placed : i.game_object \in discoveries[i.player]

\* ------------------------------------------------------------------------
\* Placement as the specification states it
\* ------------------------------------------------------------------------
\* The cells of the half-open rectangle [x, x+w) x [y, y+h).
Cells(x, y, w, h) == (x..(x + w - 1)) \X (y..(y + h - 1))

Footprint(i) ==
  Cells(i.x, i.y, GameObject[i.game_object].footprint_w,
        GameObject[i.game_object].footprint_h)

\* The rectangle of object o at (x, y) shares a cell with instance i.
Intersects(o, x, y, i) ==
  Cells(x, y, GameObject[o].footprint_w, GameObject[o].footprint_h)
    \cap Footprint(i) # {}

\* The player's placements of object o in store rows.
CountOf(rows, p, o) == Cardinality({i \in PlacedOf(rows, p) : i.game_object = o})

\* The first precondition of place that outcome r of the reconcile and the
\* request violate, in the order of the specification; "ok" if none.
FirstViolated(p, r, o, x, y) ==
  LET go == GameObject[o]
  IN CASE o \notin r.discoveries -> "Forbidden"
       [] r.coins < go.cost /\ ~is_admin_user(p) -> "InsufficientFunds"
       [] r.time_crystals < go.time_crystal_cost -> "InsufficientFunds"
       [] go.cap_per_civ # NULL /\ CountOf(r.placed, p, o) >= go.cap_per_civ -> "CapReached"
       [] \E i \in PlacedOf(r.placed, p) : Intersects(o, x, y, i) -> "SpaceOccupied"
       [] Cells(x, y, go.footprint_w, go.footprint_h)
            \cap ((0..999) \X (0..999)) # Cells(x, y, go.footprint_w, go.footprint_h)
            -> "OutOfBounds"
       [] OTHER -> "ok"

\* The preconditions that come before the overlap test hold.
EarlierPass(p, r, o) ==
  LET go == GameObject[o]
  IN /\ o \in r.discoveries
     /\ (r.coins >= go.cost \/ is_admin_user(p))
     /\ r.time_crystals >= go.time_crystal_cost
     /\ (go.cap_per_civ = NULL \/ CountOf(r.placed, p, o) < go.cap_per_civ)

\* Requests the statements below are evaluated for in every state: each
\* stored object at positions inside, on the edge of and outside the
\* canvas, next to and on top of the positions of CanvasRequests.
ProbedPositions ==
  { << 0, 0 >>, << 1, 1 >>, << 2, 2 >>, << 1, 0 >>, << 5, 5 >>, << 7, 7 >>,
    << -1, 0 >>, << 999, 999 >>, << 1000, 0 >> }

\* A hut that player p has at (x, y).
HutAt(p, x, y) ==
  \E i \in placed : i.player = p /\ i.game_object = 8 /\ i.x = x /\ i.y = y

\* ------------------------------------------------------------------------
\* C11
\* ------------------------------------------------------------------------
\* The scenario of C11: a 2 x 2 object next to a 2 x 2 placement at (0,0).
C11_Cases ==
  LET at00 == [game_object |-> 8, x |-> 0, y |-> 0]
  IN /\ overlaps(1, 1, GameObject[8], at00)
     /\ ~overlaps(2, 2, GameObject[8], at00)
     /\ ~overlaps(2, 0, GameObject[8], at00)
     /\ ~overlaps(0, 2, GameObject[8], at00)

\* C11: when the preconditions before it pass, place is rejected with
\* SpaceOccupied if and only if the half-open rectangle of the request
\* shares a cell with the footprint of an existing placement of the same
\* player, whatever its lifecycle state; rectangles that only touch are
\* accepted (2 x 2 at (0,0): (1,1) fails, (2,2) succeeds).
C11_OverlapRejection ==
  /\ C11_Cases
  /\ \A p \in profiles : \A r \in Reconciled(p) :
       \A o \in game_objects : \A xy \in ProbedPositions :
         EarlierPass(p, r, o) =>
           (place_status(p, r, o, xy[1], xy[2]) = "SpaceOccupied"
              <=> \E i \in PlacedOf(r.placed, p) : Intersects(o, xy[1], xy[2], i))

\* The admin has huts at (0,0) and (2,2), which touch at a corner.
C11_Witness == HutAt(Admin, 0, 0) /\ HutAt(Admin, 2, 2)

\* ------------------------------------------------------------------------
\* C12
\* ------------------------------------------------------------------------
\* C12: the footprints of one player's placed instances are pairwise
\* disjoint and each lies within [0, 1000) x [0, 1000).
C12_FootprintsDisjoint ==
  \A i \in placed :
    /\ Footprint(i) \subseteq (0..999) \X (0..999)
    /\ \A j \in placed :
         (j.player = i.player /\ j.id # i.id) => Footprint(i) \cap Footprint(j) = {}

\* ------------------------------------------------------------------------
\* C13
\* ------------------------------------------------------------------------
\* C13: for every object with a cap (0 included) a player never has more
\* placements of it than the cap, and a place request made when the count
\* has reached the cap is rejected with CapReached.
C13_CapNeverExceeded ==
  \A p \in profiles : \A o \in game_objects :
    GameObject[o].cap_per_civ # NULL =>
      /\ CountOf(placed, p, o) <= GameObject[o].cap_per_civ
      /\ \A r \in Reconciled(p) : \A xy \in ProbedPositions :
           (/\ o \in r.discoveries
            /\ (r.coins >= GameObject[o].cost \/ is_admin_user(p))
            /\ r.time_crystals >= GameObject[o].time_crystal_cost
            /\ CountOf(r.placed, p, o) >= GameObject[o].cap_per_civ)
             => place_status(p, r, o, xy[1], xy[2]) = "CapReached"

\* ------------------------------------------------------------------------
\* C14
\* ------------------------------------------------------------------------
\* C14: place reports the first violated precondition in the order
\* Forbidden, InsufficientFunds (coins unless fee-exempt, then time
\* crystals), CapReached, SpaceOccupied, OutOfBounds.
C14_FirstFailureWins ==
  \A p \in profiles : \A r \in Reconciled(p) :
    \A o \in game_objects : \A xy \in ProbedPositions :
      place_status(p, r, o, xy[1], xy[2]) = FirstViolated(p, r, o, xy[1], xy[2])

\* ------------------------------------------------------------------------
\* C15
\* ------------------------------------------------------------------------
\* A place_object request of p that created an instance.
Placed(p) ==
  /\ next_placed_id' = next_placed_id + 1
  /\ \E o \in game_objects, xy \in ProbedPositions \cup {<< 6, 6 >>} :
       place_object(p, o, xy[1], xy[2])

\* C15: a successful place at time now debits exactly cost coins and
\* time_crystal_cost crystals from the reconciled balances and creates one
\* instance with placed_at = now, build_complete_at = now + build_time_sec,
\* retire_at = build_complete_at + operation_duration_sec, building =
\* (build_time_sec > 0), operational = not building; nothing else changes.
C15_PlaceEffect ==
  [][\A p \in Players : Placed(p) =>
       \E r \in Reconciled(p) : \E n \in placed' :
         LET go == GameObject[n.game_object]
         IN /\ placed' = r.placed \cup {n} /\ n \notin r.placed
            /\ n.player = p /\ n.placed_at = clock
            /\ n.build_complete_at = clock + go.build_time_sec
            /\ n.retire_at = n.build_complete_at + go.operation_duration_sec
            /\ n.is_building = (go.build_time_sec > 0)
            /\ n.is_operational = ~n.is_building
            /\ coins' = [coins EXCEPT ![p] = r.coins - go.cost]
            /\ time_crystals' = [time_crystals EXCEPT ![p] = r.time_crystals - go.time_crystal_cost]
            /\ discoveries' = [discoveries EXCEPT ![p] = r.discoveries]
            /\ era_unlocks' = [era_unlocks EXCEPT ![p] = r.era_unlocks]
            /\ UNCHANGED << game_objects, recipes >>]_vars

\* The admin placed a totem at time 0 and, with the crystal it generated,
\* a shrine at time 1 that is under construction.
C15_Witness ==
  /\ clock = 1 /\ coins[Admin] = 392 /\ time_crystals[Admin] = 0
  /\ \E i \in placed :
       /\ i.player = Admin /\ i.game_object = 10 /\ i.placed_at = 1
       /\ i.build_complete_at = 2 /\ i.retire_at = 302
       /\ i.is_building /\ ~i.is_operational

\* ------------------------------------------------------------------------
\* C16
\* ------------------------------------------------------------------------
\* C16: every player's time-crystal balance is >= 0 and every player's coin
\* balance is >= 0 unless the player is fee-exempt.
C16_BalancesNonNegative ==
  \A p \in profiles :
    /\ time_crystals[p] >= 0
    /\ ~is_admin_user(p) => coins[p] >= 0

\* ------------------------------------------------------------------------
\* C18
\* ------------------------------------------------------------------------
\* A request of player P: any operation on P's account.
Issued(P) ==
  \/ game_state(P)
  \/ \E rq \in PlaceRequests \cup CanvasRequests \cup WorkshopPlacements :
       place_object(P, rq[1], rq[2], rq[3])
  \/ \E k \in 1..MaxPlacedId : remove_object(P, k)
  \/ \E ab \in CraftRequests \cup WorkshopPairs, gen \in WorkshopAnswers :
       craft_objects(P, ab[1], ab[2], gen)
  \/ \E e \in UnlockRequests : unlock_era(P, e)
  \/ \E data \in ImportRequests : import_game(P, data)

\* The step leaves the account of player Q as it is.
Untouched(Q) ==
  /\ coins'[Q] = coins[Q] /\ time_crystals'[Q] = time_crystals[Q]
  /\ PlacedOf(placed', Q) = PlacedOf(placed, Q)
  /\ discoveries'[Q] = discoveries[Q] /\ era_unlocks'[Q] = era_unlocks[Q]

\* C18: an operation issued by player P never changes the coins, time
\* crystals, placements, discoveries or era unlocks of another player Q.
C18_PlayersIndependent ==
  [][\A P \in Players : Issued(P) => \A Q \in Players \ {P} : Untouched(Q)]_vars

\* ------------------------------------------------------------------------
\* C19
\* ------------------------------------------------------------------------
\* Every stored recipe has its inputs by ascending id, and no two stored
\* recipes have the same inputs.
RecipesCanonical ==
  \A rc \in recipes :
    /\ rc.object_a <= rc.object_b
    /\ \A other \in recipes :
         (other.object_a = rc.object_a /\ other.object_b = rc.object_b) => other = rc

\* C19: craft(A, B) and craft(B, A) do the same (they look up and store the
\* same recipe, keyed by ascending id), and at most one recipe is stored
\* for each unordered pair.
C19_RecipeKeyUnordered ==
  [][/\ \A p \in Players : \A ab \in WorkshopPairs : \A gen \in WorkshopAnswers :
          craft_objects(p, ab[1], ab[2], gen) <=> craft_objects(p, ab[2], ab[1], gen)
     /\ RecipesCanonical']_vars

\* Rock + Stick has a stored recipe and both players know its result.
C19_Witness ==
  \E rc \in recipes :
    /\ rc.object_a = 1 /\ rc.object_b = 2
    /\ \A p \in Players : rc.result \in discoveries[p]

\* ------------------------------------------------------------------------
\* C20
\* ------------------------------------------------------------------------
\* The stored recipes of the unordered pair {a, b}.
StoredFor(a, b) ==
  {rc \in recipes : {rc.object_a, rc.object_b} = {a, b}}

\* The crafting cost of the pair.
CraftingCost(a, b) ==
  LET higher == get_higher_era(GameObject[a].era_name, GameObject[b].era_name)
  IN IF higher \in EraNames THEN ERA_CRAFTING_COSTS[higher] ELSE 50

\* Player p may craft a and b: both exist and are discovered, the three
\* rate-limit checks pass and the reconciled balance r.coins pays the cost.
MayCraft(p, a, b, r) ==
  /\ p \in profiles /\ {a, b} \subseteq game_objects /\ {a, b} \subseteq discoveries[p]
  /\ check_daily_rate_limit(rate_limits, p, clock).allowed
  /\ check_global_daily_rate_limit(rate_limits, clock).allowed
  /\ check_rate_limit(rate_limits, GlobalScope, "global_api", clock).allowed
  /\ (r.coins >= CraftingCost(a, b) \/ is_admin_user(p))

\* The request answered from stored recipe rc: the cost is paid, the
\* result is discovered, nothing is generated and no counter goes up.
ReturnsStored(p, a, b, r, rc) ==
  /\ coins' = [coins EXCEPT ![p] = r.coins - CraftingCost(a, b)]
  /\ discoveries' = [discoveries EXCEPT ![p] = r.discoveries \cup {rc.result}]
  /\ placed' = r.placed
  /\ UNCHANGED << game_objects, recipes >>
  /\ \A k \in RateLimitKeys :
       rate_limits'[k].count <= (IF rate_limits[k].count < 0 THEN 0 ELSE rate_limits[k].count)

\* The stored result has the fields every predefined recipe of the pair
\* prescribes.
MatchesPredefined(result, a, b) ==
  \A pre \in PredefinedRecipes :
    {pre.input_a, pre.input_b} = {GameObject[a].object_name, GameObject[b].object_name}
      => \A f \in DOMAIN pre.output : GameObject[result][f] = pre.output[f]

\* C20: whenever a recipe for the pair is stored, craft by a player who may
\* craft it returns the stored result, grants the discovery, and neither
\* calls the generation interface nor increments a rate-limit counter.
C20_StoredRecipeReturned ==
  [][\A p \in Players : \A ab \in WorkshopPairs : \A gen \in WorkshopAnswers :
       \A r \in Reconciled(p) : \A rc \in StoredFor(ab[1], ab[2]) :
         (craft_objects(p, ab[1], ab[2], gen) /\ MayCraft(p, ab[1], ab[2], r))
           => ReturnsStored(p, ab[1], ab[2], r, rc)]_vars

\* C20 for the stored recipes whose result matches the predefined fields
\* of the pair (or whose pair has no predefined recipe).
C20_MatchingRecipeReturned ==
  [][\A p \in Players : \A ab \in WorkshopPairs : \A gen \in WorkshopAnswers :
       \A r \in Reconciled(p) : \A rc \in StoredFor(ab[1], ab[2]) :
         (/\ craft_objects(p, ab[1], ab[2], gen)
          /\ MayCraft(p, ab[1], ab[2], r)
          /\ MatchesPredefined(rc.result, ab[1], ab[2]))
           => ReturnsStored(p, ab[1], ab[2], r, rc)]_vars

\* Player 1 knows the result of Rock + Rock without a generation of its
\* own: it crafted the pair after the admin had it generated.
C20_Witness ==
  /\ \E rc \in recipes : rc.object_a = 1 /\ rc.object_b = 1 /\ rc.result \in discoveries[1]
  /\ coins[1] = 400
  /\ rate_limits[<< 1, "daily_discoveries" >>].count = 0

\* The stores two requests a and b of player p leave behind when b is
\* handled after a has ended, starting from store base.
Serial(base, p, now, a, b) ==
  UNION {handled(st, MemoryOf(st), p, now, b) :
           st \in handled(base, MemoryOf(base), p, now, a)}

\* C17: two requests of the same player whose handling overlaps leave the
\* player's coins, time crystals, last_coin_update and placements as one
\* of the two serial orders of the requests would have left them, so that
\* no debit, accrual or payout is lost and no two accepted placements
\* overlap.
C17_RequestsSerialized ==
  [][\A s \in Slots : \A t \in Slots \ {s} : \A p \in Builders :
       (finish_request(s) /\ in_flight.slot[s].player = p /\ in_flight.slot[t].done) =>
          LET a == in_flight.slot[t]
              b == in_flight.slot[s]
              base == in_flight.base
          IN \E st \in Serial(base, p, clock, a, b) \cup Serial(base, p, clock, b, a) :
               /\ coins'[p] = st.coins
               /\ time_crystals'[p] = st.time_crystals
               /\ last_coin_update'[p] = st.last_coin_update
               /\ placed' = st.placed]_vars

\* No RateLimit row counts more after the step than before it (a row
\* that is created or reset counts 0).
CountersNotIncremented ==
  \A k \in RateLimitKeys :
    rate_limits'[k].count <= (IF rate_limits[k] = NoRow THEN 0 ELSE rate_limits[k].count)

\* The step leaves coins and the objects, recipes, discoveries and
\* placements of the database as they are.
NothingSpentOrCreated ==
  UNCHANGED << coins, time_crystals, game_objects, recipes, discoveries, placed >>

\* C21: a craft of two objects of different eras leaves the player's coins
\* unchanged, increments no rate-limit counter and creates no object,
\* recipe or discovery (no generation took place).
C21_EraMismatchRejected ==
  [][\A rq \in LabRequests : \A gen \in LabAnswers :
       (/\ craft_objects(rq[1], rq[2], rq[3], gen)
        /\ GameObject[rq[2]].era_name # GameObject[rq[3]].era_name)
         => (NothingSpentOrCreated /\ CountersNotIncremented)]_vars

\* The admin's Rock + Seed passed the three rate-limit checks, which
\* created their rows, and was turned down: nothing was counted or paid.
C21_Witness ==
  /\ rate_limits[<< Admin, "daily_discoveries" >>] = [count |-> 0, window_start |-> 0]
  /\ rate_limits[<< GlobalScope, "global_daily_discoveries" >>].count = 0
  /\ rate_limits[<< GlobalScope, "global_api" >>].count = 0
  /\ coins[Admin] = STARTING_COINS
  /\ recipes = {}

\* The day's quota of player p is spent: the row is of today and counts
\* the limit of the account's tier.
DailyQuotaSpent(p) ==
  LET row == rate_limits[<< p, "daily_discoveries" >>]
      limit == IF p \in AdminUsers THEN RATE_LIMIT_DAILY_ADMIN
               ELSE IF is_pro[p] THEN RATE_LIMIT_DAILY_PRO
               ELSE RATE_LIMIT_DAILY_STANDARD
  IN row # NoRow /\ row.window_start \div SecondsPerDay = clock \div SecondsPerDay
       /\ row.count >= limit

\* The day's global quota is spent.
GlobalDailyQuotaSpent ==
  LET row == rate_limits[<< GlobalScope, "global_daily_discoveries" >>]
  IN row # NoRow /\ row.window_start \div SecondsPerDay = clock \div SecondsPerDay
       /\ row.count >= RATE_LIMIT_DAILY_GLOBAL

\* The global quota of the current minute is spent.
MinuteQuotaSpent ==
  LET row == rate_limits[<< GlobalScope, "global_api" >>]
  IN row # NoRow /\ clock - row.window_start < RATE_LIMIT_WINDOW
       /\ row.count >= RATE_LIMIT_GLOBAL_API_CALLS

\* C22: a craft sent while the player's daily quota, the global daily
\* quota or the global per-minute quota is spent is turned down before
\* anything is spent: coins are unchanged, no counter is incremented and no
\* object, recipe or discovery is created (no generation took place).
C22_RateLimitedRejected ==
  [][\A rq \in LabRequests : \A gen \in LabAnswers :
       (/\ craft_objects(rq[1], rq[2], rq[3], gen)
        /\ (DailyQuotaSpent(rq[1]) \/ GlobalDailyQuotaSpent \/ MinuteQuotaSpent))
         => (NothingSpentOrCreated /\ CountersNotIncremented)]_vars

\* Player 1, whose quota of the day is spent, sent Stick + Stick after the
\* admin had the pair generated: the request was turned down at the daily
\* check, which leaves the global rows as they were, and cost nothing.
C22_Witness ==
  /\ rate_limits[<< 1, "daily_discoveries" >>].count = RATE_LIMIT_DAILY_STANDARD
  /\ \E rc \in recipes : rc.object_a = 2 /\ rc.object_b = 2
  /\ coins[1] = STARTING_COINS
  /\ coins[Admin] < STARTING_COINS

\* The name under which the answer gen would be stored for the pair: the
\* predefined name if the pair has one, else the answered name.
AnsweredName(gen, a, b) ==
  LET pre == {rc \in PredefinedRecipes :
                {rc.input_a, rc.input_b} = {GameObject[a].object_name, GameObject[b].object_name}
                  /\ "object_name" \in DOMAIN rc.output}
  IN IF pre = {} THEN GameObject[gen.object].object_name
     ELSE (CHOOSE rc \in pre : TRUE).output.object_name

\* The craft of a and b by p goes to the generation interface (no stored
\* recipe answers it) and ends in an upstream failure: the generation call
\* fails, or the image call fails for an answer whose name is free.
UpstreamFailure(p, a, b, gen, r) ==
  /\ MayCraft(p, a, b, r)
  /\ GameObject[a].era_name = GameObject[b].era_name
  /\ \A rc \in StoredFor(a, b) : ~MatchesPredefined(rc.result, a, b)
  /\ \/ gen.failed
     \/ /\ ~gen.image_ok
        /\ \A k \in game_objects : GameObject[k].object_name # AnsweredName(gen, a, b)

\* The daily counters of player p and of the server count the request.
QuotaConsumed(p) ==
  \A k \in { << p, "daily_discoveries" >>, << GlobalScope, "global_daily_discoveries" >> } :
    rate_limits'[k].count = (IF rate_limits[k] = NoRow THEN 0 ELSE rate_limits[k].count) + 1

\* C23: a craft that ends in an upstream failure has counted against the
\* quotas and leaves everything else as the reconcile step left it: coins
\* are not debited and no object, recipe, discovery or placement is
\* created, changed or deleted.
C23_UpstreamFailureKeepsState ==
  [][\A p \in Builders : \A ab \in WorkshopPairs : \A gen \in WorkshopAnswers :
       \A r \in Reconciled(p) :
         (craft_objects(p, ab[1], ab[2], gen) /\ UpstreamFailure(p, ab[1], ab[2], gen, r))
           => /\ QuotaConsumed(p)
              /\ coins' = [coins EXCEPT ![p] = r.coins]
              /\ discoveries' = [discoveries EXCEPT ![p] = r.discoveries]
              /\ placed' = r.placed
              /\ UNCHANGED << game_objects, recipes >>]_vars

\* crafting_cost(higher era of the inputs), 50 for an era that the table
\* of costs does not list.
ExpectedCost(a, b) ==
  LET ia == get_era_index(GameObject[a].era_name)
      ib == get_era_index(GameObject[b].era_name)
      higher == IF ia = 0 \/ ib = 0 THEN GameObject[a].era_name
                ELSE IF ia >= ib THEN GameObject[a].era_name ELSE GameObject[b].era_name
  IN IF higher \in EraNames THEN ERA_CRAFTING_COSTS[higher] ELSE 50

\* The request of p for a and b gets as far as the coins check: the
\* quotas allow it, both objects exist, are discovered and of one era.
ReachesCoinsCheck(p, a, b) ==
  /\ p \in profiles /\ {a, b} \subseteq game_objects /\ {a, b} \subseteq discoveries[p]
  /\ ~DailyQuotaSpent(p) /\ ~GlobalDailyQuotaSpent /\ ~MinuteQuotaSpent
  /\ GameObject[a].era_name = GameObject[b].era_name

\* After the step a recipe of a and b is stored and p has discovered its
\* result.
ResultKnown(p, a, b) ==
  \E rc \in recipes' : {rc.object_a, rc.object_b} = {a, b} /\ rc.result \in discoveries'[p]

\* C24: of the crafts that get as far as the coins check, every one that
\* succeeds, in whichever branch, debits crafting_cost(higher era of the
\* inputs) exactly once from the reconciled balance and leaves the player
\* with the result; one that ends in an upstream failure debits nothing;
\* and a player who is not fee-exempt and holds fewer coins than the cost
\* is turned down without a debit and without any effect but the
\* reconcile.
C24_CraftCostDebitedOnce ==
  [][\A rq \in LabRequests : \A gen \in LabAnswers : \A r \in Reconciled(rq[1]) :
       (craft_objects(rq[1], rq[2], rq[3], gen) /\ ReachesCoinsCheck(rq[1], rq[2], rq[3]))
         => LET p == rq[1]
                cost == ExpectedCost(rq[2], rq[3])
            IN IF r.coins < cost /\ ~is_admin_user(p)
                 THEN /\ coins'[p] = r.coins
                      /\ UNCHANGED << game_objects, recipes >>
                      /\ CountersNotIncremented
                      /\ discoveries'[p] = r.discoveries
               ELSE IF UpstreamFailure(p, rq[2], rq[3], gen, r)
                 THEN coins'[p] = r.coins
               ELSE /\ coins'[p] = r.coins - cost
                    /\ ResultKnown(p, rq[2], rq[3])]_vars

\* Player 1 paid 100 coins for each of Rock + Rock (generated: Driftwood)
\* and Stick + Stick (the admin's recipe, stored), and the fallback cost 50
\* for Driftwood + Driftwood, whose era the table of costs does not list.
C24_Witness ==
  /\ coins[1] = STARTING_COINS - 250
  /\ \E rc \in recipes : rc.object_a = 13 /\ rc.object_b = 13 /\ rc.result \in discoveries[1]
  /\ \E rc \in recipes : rc.object_a = 2 /\ rc.object_b = 2 /\ rc.result \in discoveries[1]
  /\ rate_limits[<< 1, "daily_discoveries" >>].count = 2

\* C25: every object that a craft persists (the generation branch) and
\* that is not a keystone is of the higher of the two input eras.
C25_GeneratedEraValidated ==
  [][\A rq \in LabRequests : \A gen \in LabAnswers :
       craft_objects(rq[1], rq[2], rq[3], gen)
         => \A k \in game_objects' \ game_objects :
              ~GameObject[k].is_keystone
                => GameObject[k].era_name =
                     get_higher_era(GameObject[rq[2]].era_name, GameObject[rq[3]].era_name)]_vars

\* C26: a successful unlock (era of the table, not yet unlocked, enough
\* time crystals after the reconcile) debits exactly the era's unlock cost,
\* makes the era the current one, adds the one EraUnlock, leaves the player
\* with every starter object of the era and with every discovery held
\* before, and does not touch coins or placements.
C26_UnlockEffect ==
  [][\A p \in Actors : \A e \in UnlockRequests \cap EraNames : \A r \in Reconciled(p) :
       (/\ unlock_era(p, e)
        /\ e \notin r.era_unlocks
        /\ r.time_crystals >= ERA_CRYSTAL_COSTS[e])
         => /\ time_crystals'[p] = r.time_crystals - ERA_CRYSTAL_COSTS[e]
            /\ current_era'[p] = e
            /\ era_unlocks'[p] = r.era_unlocks \cup {e}
            /\ discoveries'[p] =
                 r.discoveries \cup {o \in game_objects : GameObject[o].is_starter
                                                           /\ GameObject[o].era_name = e}
            /\ coins'[p] = r.coins
            /\ placed' = r.placed
            /\ \A q \in Players \ {p} :
                 /\ era_unlocks'[q] = era_unlocks[q]
                 /\ discoveries'[q] = discoveries[q]]_vars

\* Player 1 placed a totem at time 0, which yields a time crystal per
\* second, and at time 10 paid the 10 crystals for Agriculture.
C26_Witness ==
  /\ clock = 10
  /\ last_coin_update[1] = 10
  /\ time_crystals[1] = 0
  /\ current_era[1] = "Agriculture"
  /\ era_unlocks[1] = {"Hunter-Gatherer", "Agriculture"}
  /\ 7 \in discoveries[1]
  /\ \E i \in placed : i.player = 1 /\ i.game_object = 6 /\ i.placed_at = 0 /\ i.is_operational

\* ------------------------------------------------------------------------
\* Rejected place and unlock requests
\* ------------------------------------------------------------------------
\* The request to place object o at (x, y) violates a precondition of
\* place in outcome r of the reconcile.
PlaceRejected(p, r, o, x, y) ==
  o \notin game_objects \/ FirstViolated(p, r, o, x, y) # "ok"

\* The request to unlock era e, a name of the era table, violates a
\* precondition of unlock in outcome r of the reconcile.
UnlockRejected(r, e) ==
  e \in r.era_unlocks \/ r.time_crystals < ERA_CRYSTAL_COSTS[e]

\* The state after the step is outcome r of the reconcile of player p and
\* nothing else: nothing is debited, no placement, era unlock or discovery
\* is created or deleted.
LeavesReconciled(p, r) ==
  /\ coins'[p] = r.coins
  /\ time_crystals'[p] = r.time_crystals
  /\ last_coin_update'[p] = r.last_coin_update
  /\ current_era'[p] = r.current_era
  /\ era_unlocks'[p] = r.era_unlocks
  /\ discoveries'[p] = r.discoveries
  /\ placed' = r.placed
  /\ next_placed_id' = next_placed_id
  /\ \A q \in Players \ {p} :
       /\ coins'[q] = coins[q]
       /\ time_crystals'[q] = time_crystals[q]
       /\ era_unlocks'[q] = era_unlocks[q]
       /\ discoveries'[q] = discoveries[q]

\* The state is outcome r of the reconcile of player p.
IsReconciled(p, r) ==
  /\ coins[p] = r.coins
  /\ time_crystals[p] = r.time_crystals
  /\ last_coin_update[p] = r.last_coin_update
  /\ current_era[p] = r.current_era
  /\ era_unlocks[p] = r.era_unlocks
  /\ discoveries[p] = r.discoveries
  /\ placed = r.placed

\* A rejected place request, and an unlock request rejected with
\* AlreadyUnlocked or InsufficientFunds, leaves the outcome of the
\* reconcile.
RejectedAfterReconcile ==
  \A p \in Builders :
    /\ \A rq \in GateRequests :
         (/\ place_object(p, rq[1], rq[2], rq[3])
          /\ \A r \in Reconciled(p) : PlaceRejected(p, r, rq[1], rq[2], rq[3]))
           => \E r \in Reconciled(p) : LeavesReconciled(p, r)
    /\ \A e \in UnlockRequests \cap EraNames :
         (/\ unlock_era(p, e)
          /\ \A r \in Reconciled(p) : UnlockRejected(r, e))
           => \E r \in Reconciled(p) : LeavesReconciled(p, r)

C28_DiscoveriesAppendOnly ==
  [][\A p \in Players : discoveries[p] \subseteq discoveries'[p]]_vars

\* ------------------------------------------------------------------------
\* The validation of the era table
\* ------------------------------------------------------------------------
\* The order values of the files are unique and form the sequence 1..N.
OrdersContiguous(files) ==
  /\ \A i, j \in 1..Len(files) : i # j => files[i].order # files[j].order
  /\ {files[i].order : i \in 1..Len(files)} = 1..Len(files)

\* Every file declares keystone and starter data.
DeclaresKeystoneAndStarters(files) ==
  \A i \in 1..Len(files) : {"keystone", "starters"} \subseteq files[i].present

\* C29: loading the era table fails with an error, instead of producing a
\* table, whenever the order values of the era definitions are not unique
\* or not the contiguous sequence 1..N, or an era lacks its keystone or
\* starter data: a call of the loader raises, a run of validate_eras
\* reports that the validation failed, and neither yields a table.
C29_InvalidErasRejected ==
  (/\ era_result.call # "none"
   /\ ~(OrdersContiguous(eras_dir) /\ DeclaresKeystoneAndStarters(eras_dir)))
    => /\ era_result.raised # "" \/ era_result.failed
       /\ ~era_result.complete
       /\ era_result.table = << >>

\* ------------------------------------------------------------------------
\* Liveness of the lazy reconciliation
\* ------------------------------------------------------------------------
\* Instance k has become operational: it is operational, or it has been
\* paid out, which happens to operational rows only.
BecameOperational(i) == ~i.is_building /\ (i.is_operational \/ paid[i.id] >= 1)

\* Instance k is soft-retired and its payout has been credited, once.
SoftRetired(i) == ~i.is_building /\ ~i.is_operational /\ paid[i.id] = 1

\* The step is a request of player p.
RequestOf(p) ==
  \/ register(p)
  \/ game_state(p)
  \/ \E rq \in LiveRequests : place_object(p, rq[1], rq[2], rq[3])
  \/ \E k \in 1..MaxPlacedId : remove_object(p, k)

ByIdAscending(S) ==
  CHOOSE f \in Orders(S) : \A i, j \in 1..Cardinality(S) : i < j => f[i].id < f[j].id

\* The rows of player p that earn in a reconcile at the current time.
EarningRows(p) ==
  operational_objects(retire_objects(complete_builds(placed, p, clock), p, clock), p, clock)

\* C31: the modifier fold is deterministic: in a reconcile of a fixed
\* state at a fixed time the multiplier of every category and the income
\* credited are those of the fold in ascending order of instance id, in
\* whatever order the store enumerates the operational instances, also
\* when a category receives multiplicative and additive modifiers.
C31_FoldDeterministic ==
  [][\A p \in Builders :
       game_state(p) =>
         /\ coins'[p] - coins[p] \in
              {r.coins - coins[p] : r \in
                 {update_player_coins(p, clock, korder, ByIdAscending(EarningRows(p))) :
                    korder \in Orders(completed_buildings(placed, p, clock))}}
         /\ \A aorder \in Orders(EarningRows(p)), c \in {"farm", "tool", "natural"} :
              income_multiplier(modifier_map(aorder, c), 1) =
                income_multiplier(modifier_map(ByIdAscending(EarningRows(p)), c), 1)]_vars

\* ------------------------------------------------------------------------
\* The round trip of export and import
\* ------------------------------------------------------------------------
\* The placements of player q without their ids and owner.
PlacementsOf(rows, q) ==
  {serialized_placed(i) : i \in PlacedOf(rows, q)}

\* C32: export followed by import is a round trip: the data that export
\* returns for a player with at least one discovery and one placement is
\* accepted by the import validation, and importing it gives the
\* importing profile the exported coins, time crystals and current era,
\* the exported set of discoveries and era unlocks and the exported
\* placements (ids may differ).
C32_ExportImportRoundTrip ==
  /\ [](\A k \in DOMAIN exported :
          (Len(exported[k].discoveries) >= 1 /\ Len(exported[k].placed_objects) >= 1)
           => GameStateImportValid(exported[k], clock))
  /\ [][\A q \in Builders, k \in DOMAIN exported :
          (/\ Len(exported[k].discoveries) >= 1
           /\ Len(exported[k].placed_objects) >= 1
           /\ import_game(q, exported[k]))
           => /\ coins'[q] = exported[k].profile.coins
              /\ time_crystals'[q] = exported[k].profile.time_crystals
              /\ current_era'[q] = exported[k].profile.current_era
              /\ discoveries'[q] =
                   {exported[k].discoveries[n].id : n \in DOMAIN exported[k].discoveries}
              /\ era_unlocks'[q] =
                   {exported[k].era_unlocks[n] : n \in DOMAIN exported[k].era_unlocks}
              /\ PlacementsOf(placed', q) =
                   {exported[k].placed_objects[n] : n \in DOMAIN exported[k].placed_objects}
              /\ Cardinality(PlacedOf(placed', q)) = Len(exported[k].placed_objects)]_vars

\* ------------------------------------------------------------------------
\* The daily quotas
\* ------------------------------------------------------------------------
\* The count of a daily row as a request at the current time finds it: a
\* row that is missing or was made on an earlier day counts 0.
CountToday(key) ==
  IF rate_limits[key] = NoRow \/ date(rate_limits[key].window_start) < date(clock)
    THEN 0
    ELSE rate_limits[key].count

\* The limit of the tier of player p.
TierLimit(p) ==
  IF p = Admin THEN 1000 ELSE IF is_pro[p] THEN 500 ELSE 20

\* The step calls the generation interface for player p: craft_objects,
\* and nothing else, counts the player's call of the minute just before it.
ReachesGeneration(p) ==
  rate_limits'[<< p, "user_discovery" >>] # rate_limits[<< p, "user_discovery" >>]

\* C33: the daily quotas bound generation: with requests handled one at a
\* time, a craft reaches the generation call only while the player's
\* count of the day is below the limit of the tier (20, 500, 1000) and
\* the count of all players is below 4000; it adds one to both counts;
\* the counts of a day start from 0 whatever the rows of an earlier day
\* hold, and never pass the limits; a request that does not reach the
\* generation call leaves the player's row alone or restarts it at 0.
C33_DailyQuotaBoundsGeneration ==
  [][\A p \in Builders :
       /\ ReachesGeneration(p) =>
            /\ CountToday(<< p, "daily_discoveries" >>) < TierLimit(p)
            /\ CountToday(<< GlobalScope, "global_daily_discoveries" >>) < 4000
            /\ rate_limits'[<< p, "daily_discoveries" >>] =
                 [count |-> CountToday(<< p, "daily_discoveries" >>) + 1,
                  window_start |-> today_start(clock)]
            /\ rate_limits'[<< GlobalScope, "global_daily_discoveries" >>] =
                 [count |-> CountToday(<< GlobalScope, "global_daily_discoveries" >>) + 1,
                  window_start |-> today_start(clock)]
       /\ rate_limits'[<< p, "daily_discoveries" >>] # NoRow =>
            rate_limits'[<< p, "daily_discoveries" >>].count <= TierLimit(p)
       /\ rate_limits'[<< GlobalScope, "global_daily_discoveries" >>] # NoRow =>
            rate_limits'[<< GlobalScope, "global_daily_discoveries" >>].count <= 4000
       /\ ~ReachesGeneration(p) =>
            \/ rate_limits'[<< p, "daily_discoveries" >>]
                 = rate_limits[<< p, "daily_discoveries" >>]
            \/ rate_limits'[<< p, "daily_discoveries" >>]
                 = [count |-> 0, window_start |-> today_start(clock)]]_vars

\* On the day after the one on which the standard player 1 made the
\* twentieth generation call, the player has made two more, counted from 0.
C33_Witness ==
  /\ clock = SecondsPerDay
  /\ ~is_pro[1]
  /\ rate_limits[<< 1, "daily_discoveries" >>] = [count |-> 2, window_start |-> SecondsPerDay]
  /\ rate_limits[<< GlobalScope, "global_daily_discoveries" >>].count = 2
  /\ rate_limits[<< Admin, "daily_discoveries" >>] = NoRow

\* ------------------------------------------------------------------------
\* The per-minute limits
\* ------------------------------------------------------------------------
\* The count of a per-minute row as a request at the current time finds
\* it: a row that is missing or whose window has expired counts 0.
CountThisMinute(key) ==
  IF rate_limits[key] = NoRow \/ clock - rate_limits[key].window_start >= RATE_LIMIT_WINDOW
    THEN 0
    ELSE rate_limits[key].count

\* C34: the per-player per-minute limit is enforced: a craft reaches the
\* generation call only while the player has made fewer than
\* RATE_LIMIT_USER_DISCOVERIES such calls in the current window of 60
\* seconds, so that the count of a window never passes the limit.
C34_PerMinuteLimitEnforced ==
  /\ [][\A p \in Builders :
          ReachesGeneration(p) =>
            CountThisMinute(<< p, "user_discovery" >>) < RATE_LIMIT_USER_DISCOVERIES]_vars
  /\ [](\A p \in Builders :
          CountThisMinute(<< p, "user_discovery" >>) <= RATE_LIMIT_USER_DISCOVERIES)

\* C35: the counter of external calls of one window, which counts the
\* generation call and the image call of every craft of all players,
\* never passes RATE_LIMIT_GLOBAL_API_CALLS.
C35_GlobalApiLimitEnforced ==
  CountThisMinute(<< GlobalScope, "global_api" >>) <= RATE_LIMIT_GLOBAL_API_CALLS

\* ------------------------------------------------------------------------
\* The lifecycle of a placement
\* ------------------------------------------------------------------------
\* The lifecycle state of a row.
Lifecycle(i) ==
  CASE i.is_building /\ ~i.is_operational -> "building"
    [] ~i.is_building /\ i.is_operational -> "operational"
    [] ~i.is_building /\ ~i.is_operational -> "soft-retired"
    [] OTHER -> "none"

\* The states a row in state s may be found in after a request: a pass in
\* which the build completes and the lifetime has ended goes through
\* operational to soft-retired.
LifecycleAfter(s) ==
  CASE s = "building" -> {"building", "operational", "soft-retired"}
    [] s = "operational" -> {"operational", "soft-retired"}
    [] s = "soft-retired" -> {"soft-retired"}
    [] OTHER -> {}

C37_CurrentEraIsUnlocked ==
  /\ [](\A p \in profiles :
          /\ current_era[p] \in era_unlocks[p]
          /\ era_unlocks[p] \subseteq EraNames)
  /\ [][\A p \in Players :
          /\ era_unlocks[p] \subseteq era_unlocks'[p]
          /\ current_era'[p] # current_era[p] =>
               current_era'[p] \in era_unlocks'[p] \ era_unlocks[p]]_vars

\* Player 1 holds the unlocks of Hunter-Gatherer and Agriculture and is in
\* Agriculture: the campfire the player placed, a keystone, has been
\* completed by a reconcile at no cost in time crystals.
C37_Witness ==
  /\ 1 \in profiles
  /\ era_unlocks[1] = {"Hunter-Gatherer", "Agriculture"}
  /\ current_era[1] = "Agriculture"
  /\ time_crystals[1] = 0
  /\ \E i \in placed : i.player = 1 /\ i.game_object = 5 /\ Lifecycle(i) = "operational"

\* ------------------------------------------------------------------------
\* Builds that complete during a reconcile
\* ------------------------------------------------------------------------
\* The instances of p whose build the reconcile at the current time
\* completes and whose lifetime has not ended.
CompletedNow(p) ==
  {i \in PlacedOf(placed, p) :
     /\ i.is_building /\ ~i.is_operational
     /\ i.build_complete_at <= clock
     /\ i.retire_at # NULL /\ clock < i.retire_at}

\* The instances of p that were operational before the reconcile at the
\* current time and whose lifetime has not ended.
OperationalBefore(p) ==
  {i \in PlacedOf(placed, p) :
     i.is_operational /\ (i.retire_at = NULL \/ i.retire_at > clock)}

\* C38: an instance whose build completes during a reconcile
\* (build_complete_at <= now < retire_at) is operational after it and is
\* part of the accrual of that pass for the whole interval
\* dt = now - last_coin_update: the pass credits dt times the income of
\* the instances that were operational together with the completed ones,
\* and dt times the generation of both, whenever within the interval the
\* build was completed.
C38_CompletedBuildEarnsWholeInterval ==
  [][\A p \in Players : game_state(p) =>
       LET dt == clock - last_coin_update[p]
       IN /\ \A i \in CompletedNow(p) :
               ~After(i).is_building /\ After(i).is_operational
          /\ coins'[p] = coins[p] + Payouts(Due(p))
                           + dt * Income(OperationalBefore(p) \cup CompletedNow(p))
          /\ time_crystals'[p] = time_crystals[p]
                                   + dt * Crystals(OperationalBefore(p))
                                   + dt * Crystals(CompletedNow(p))]_vars

\* The field player 1 placed at time 0 is built at time 1; the reconcile
\* at time 1, the first since the placement, has made it operational and
\* credited its income and its time crystal for the second from 0 to 1.
C38_Witness ==
  /\ clock = 1 /\ last_coin_update[1] = 1
  /\ Placement(4, 1, 0, 0, TRUE)
  /\ Cardinality(PlacedOf(placed, 1)) = 1
  /\ time_crystals[1] = 1
  /\ next_placed_id = 2

\* ------------------------------------------------------------------------
\* Removal in every lifecycle state
\* ------------------------------------------------------------------------
\* The ids of a set of rows.
IdsOf(rows) == {i.id : i \in rows}

\* What the reconcile of a request of p at the current time credits.
ReconcileCredit(p) ==
  Payouts(Due(p)) + (clock - last_coin_update[p]) * Income(Earning(p))

RedeemedBy(p) ==
  {k \in DOMAIN upgrade_keys : upgrade_keys[k].is_redeemed /\ upgrade_keys[k].redeemed_by = p}

\* C40: upgrade keys are single-use: with redeem requests handled one at
\* a time, a redeemed key is never changed again; a key changes only by
\* being redeemed, at the current time, by a profile that was not pro and
\* is pro afterwards, one key per request; a profile becomes pro only by
\* redeeming a key; so every redeemed key names the one user who redeemed
\* it, who is pro, and no user has redeemed two keys.
C40_UpgradeKeysSingleUse ==
  /\ [][/\ \A k \in DOMAIN upgrade_keys :
            /\ upgrade_keys[k].is_redeemed => upgrade_keys'[k] = upgrade_keys[k]
            /\ upgrade_keys'[k] # upgrade_keys[k] =>
                 \E p \in profiles :
                   /\ ~is_pro[p] /\ is_pro'[p]
                   /\ upgrade_keys'[k] = [is_redeemed |-> TRUE, redeemed_by |-> p,
                                          redeemed_at |-> clock]
                   /\ \A q \in Players \ {p} : is_pro'[q] = is_pro[q]
                   /\ \A j \in DOMAIN upgrade_keys \ {k} : upgrade_keys'[j] = upgrade_keys[j]
        /\ \A p \in profiles :
             is_pro'[p] # is_pro[p] =>
               /\ is_pro'[p]
               /\ \E k \in DOMAIN upgrade_keys :
                    ~upgrade_keys[k].is_redeemed /\ upgrade_keys'[k].redeemed_by = p]_vars
  /\ [](\A k \in DOMAIN upgrade_keys :
          IF upgrade_keys[k].is_redeemed
            THEN /\ upgrade_keys[k].redeemed_by \in profiles
                 /\ is_pro[upgrade_keys[k].redeemed_by]
                 /\ RedeemedBy(upgrade_keys[k].redeemed_by) = {k}
            ELSE upgrade_keys[k] = NewKey)

\* Player 1 has redeemed the first key at time 0, sent with blanks around
\* it, and user 2 the second key at time 1: both are pro.
C40_Witness ==
  /\ upgrade_keys[<< "K", "1" >>] = [is_redeemed |-> TRUE, redeemed_by |-> 1, redeemed_at |-> 0]
  /\ upgrade_keys[<< "K", "2" >>] = [is_redeemed |-> TRUE, redeemed_by |-> 2, redeemed_at |-> 1]
  /\ is_pro[1] /\ is_pro[2]

====
